---- MODULE Spec2Model ----
(***************************************************************************)
(* Pumpkin, IntSat conflict analysis: the cutting-plane step (apply_cut),  *)
(* the conflict resolver built on it (resolve_conflict) and the            *)
(* installation of a learned inequality (process); the propagator queue,   *)
(* the domain operations of the engine with their notifications, and       *)
(* affine views.                                                           *)
(*                                                                         *)
(* Numbers are Rust i32 values.  TLC's own integers are 32 bits wide, so   *)
(* every checked_* operation is modelled by a range test that itself never *)
(* leaves the i32 range, and 64-bit sums are kept in two 16-bit limbs.     *)
(***************************************************************************)
EXTENDS Integers, Sequences, FiniteSets, TLC

---------------------------------------------------------------------------
(* i32 arithmetic                                                          *)

I32_MAX == 2147483647
I32_MIN == (-I32_MAX) - 1

\* 2^30: the smallest magnitude whose double leaves the i32 range upwards
\* while the double of its negation is exactly i32::MIN.
Big == (I32_MAX \div 2) + 1

\* The two ways the crate is built: overflow checks on (debug) or off (release).
Builds == {"debug", "release"}

AbsI(x) == IF x < 0 THEN -x ELSE x

Min(a, b) == IF a <= b THEN a ELSE b

\* i32::abs in a release build: i32::MIN wraps to itself.
wrapping_abs(x) == IF x = I32_MIN THEN I32_MIN ELSE AbsI(x)

\* i32::abs in a debug build panics exactly on i32::MIN.
abs_panics(x) == x = I32_MIN

MulFits(a, b) ==
    IF a = 0 \/ b = 0 THEN TRUE
    ELSE IF a = I32_MIN THEN b = 1
    ELSE IF b = I32_MIN THEN a = 1
    ELSE LET x == AbsI(a)
             y == AbsI(b)
         IN  IF (a > 0) = (b > 0)
             THEN x <= I32_MAX \div y
             ELSE (x - 1) <= ((I32_MAX - y) + 1) \div y

AddFits(a, b) == IF b >= 0 THEN a <= I32_MAX - b ELSE a >= I32_MIN - b

None == [some |-> FALSE, v |-> 0]
Some(x) == [some |-> TRUE, v |-> x]

checked_mul(a, b) == IF MulFits(a, b) THEN Some(a * b) ELSE None

\* i32::wrapping_add.
wrapping_add(a, b) ==
    IF AddFits(a, b) THEN a + b
    ELSE IF b >= 0 THEN (a + I32_MIN) + (b + I32_MIN)
    ELSE (a - I32_MIN) + (b - I32_MIN)

\* Mutant of checked_add: the sum is not checked, it wraps.
checked_add_wrapping(a, b) == Some(wrapping_add(a, b))

checked_add(a, b) == IF AddFits(a, b) THEN Some(a + b) ELSE None

\* Rust's `/` on i32: the quotient rounded towards zero.
TruncDiv(a, b) ==
    IF b > 0
    THEN IF a >= 0 THEN a \div b ELSE (a + (b - 1)) \div b
    ELSE IF b = I32_MIN
         THEN IF a = I32_MIN THEN 1 ELSE 0
         ELSE IF a <= 0 THEN a \div b ELSE -(a \div (-b))

\* Rust's `%` on i32: the remainder has the sign of the dividend.
Rem(a, b) == a - (TruncDiv(a, b) * b)

div_ceil(num, div) ==
    LET d == TruncDiv(num, div)
        r == Rem(num, div)
    IN  IF (r > 0 /\ div > 0) \/ (r < 0 /\ div < 0) THEN d + 1 ELSE d

RECURSIVE trailing_zeros(_)
trailing_zeros(x) ==
    IF x = 0 THEN 32
    ELSE IF x % 2 = 1 THEN 0
    ELSE 1 + trailing_zeros(x \div 2)

\* 1 << k on i32: 1 << 31 is i32::MIN.
Shl1(k) == IF k = 31 THEN I32_MIN ELSE 2 ^ k

\* The subtractive loop of the binary gcd, on odd positive m, n.
RECURSIVE gcd_loop(_, _)
gcd_loop(m, n) ==
    IF m = n THEN m
    ELSE IF m > n
         THEN LET d == m - n IN gcd_loop(d \div (2 ^ trailing_zeros(d)), n)
         ELSE LET d == n - m IN gcd_loop(m, d \div (2 ^ trailing_zeros(d)))

\* (m | n).trailing_zeros(): the lowest set bit of a bitwise or is the lower
\* of the two lowest set bits.
or_trailing_zeros(m, n) == Min(trailing_zeros(m), trailing_zeros(n))

\* gcd as a release build computes it (abs wraps on i32::MIN).
gcd(a, b) ==
    IF a = 0 \/ b = 0
    THEN wrapping_abs(IF a = 0 THEN b ELSE a)
    ELSE LET shift == or_trailing_zeros(a, b) IN
         IF a = I32_MIN \/ b = I32_MIN
         THEN wrapping_abs(Shl1(shift))
         ELSE LET m == AbsI(a)
                  n == AbsI(b)
              IN  gcd_loop(m \div (2 ^ trailing_zeros(m)),
                           n \div (2 ^ trailing_zeros(n))) * (2 ^ shift)

\* The calls of gcd on which a debug build panics: the .abs() of i32::MIN.
gcd_panics(a, b) ==
    IF a = 0 \/ b = 0
    THEN abs_panics(IF a = 0 THEN b ELSE a)
    ELSE (a = I32_MIN \/ b = I32_MIN) /\ abs_panics(Shl1(or_trailing_zeros(a, b)))


\* The value of a i32 as two limbs, x = Hi(x) * Limb + Lo(x), 0 <= Lo(x) < Limb,
\* so that sums of products of coefficients and values stay in range.
Limb == 2 ^ 16
Hi(x) == x \div Limb
Lo(x) == x % Limb

\* i32::wrapping_mul for one factor of small magnitude (a bound of a domain,
\* or a coefficient): the high limb of the product is reduced modulo 2^16
\* first.
wrapping_mul_by_small(a, b) ==
    LET u == (Hi(a) * b) % Limb
        h == IF u >= Limb \div 2 THEN u - Limb ELSE u
    IN  wrapping_add(h * Limb, Lo(a) * b)

wrapping_mul(a, b) ==
    IF b > -(Limb \div 2) /\ b < Limb \div 2
    THEN wrapping_mul_by_small(a, b)
    ELSE wrapping_mul_by_small(b, a)

\* `value as i64`, and i64 sums, differences and comparisons, on two limbs
\* <<h, l>> standing for h * Limb + l with 0 <= l < Limb.
I64(x) == <<Hi(x), Lo(x)>>
i64_norm(h, l) == <<h + (l \div Limb), l % Limb>>
i64_add(a, b) == i64_norm(a[1] + b[1], a[2] + b[2])
i64_sub(a, b) == i64_norm(a[1] - b[1], a[2] - b[2])
i64_lt(a, b) == a[1] < b[1] \/ (a[1] = b[1] /\ a[2] < b[2])

\* i32::try_from(i64) succeeds.
i64_is_i32(a) == (-(Limb \div 2)) <= a[1] /\ a[1] < (Limb \div 2)

\* usize::MAX.  The model's integers end at 2^31 - 1; all the code does with
\* a wrapped index is to compare it with trail positions, which are smaller.
USIZE_MAX == I32_MAX

---------------------------------------------------------------------------
(* Linear inequalities: [lhs |-> sequence of <<DomainId, scale>>, rhs]     *)

LinearLessOrEqual(lhs, rhs) == [lhs |-> lhs, rhs |-> rhs]

Ids(lhs) == {lhs[i][1] : i \in 1..Len(lhs)}

contains_variable(lhs, variable) == \E i \in 1..Len(lhs) : lhs[i][1] = variable

\* The scale of the first term on `variable`, None when there is none.
find_variable_scale(lhs, variable) ==
    LET at == {i \in 1..Len(lhs) : lhs[i][1] = variable}
    IN  IF at = {} THEN None
        ELSE Some(lhs[CHOOSE i \in at : \A j \in at : i <= j][2])

\* No zero coefficient, no DomainId twice (section 3 of the design, "Linear Inequality").
WellFormed(c) ==
    /\ \A i \in 1..Len(c.lhs) : c.lhs[i][2] # 0
    /\ \A i, j \in 1..Len(c.lhs) : i # j => c.lhs[i][1] # c.lhs[j][1]

\* HashMap<DomainId, i32> as a function on the set of its keys.
EmptyMap == [k \in {} |-> 0]
MapInsert(m, k, v) == [x \in (DOMAIN m) \cup {k} |-> IF x = k THEN v ELSE m[x]]
MapRemove(m, k) == [x \in (DOMAIN m) \ {k} |-> m[x]]

\* into_iter().sorted_by_key(|(id, _)| id.id).collect()
RECURSIVE SortedByKey(_)
SortedByKey(m) ==
    IF DOMAIN m = {} THEN <<>>
    ELSE LET k == CHOOSE x \in DOMAIN m : \A y \in DOMAIN m : x <= y
         IN  <<(<<k, m[k]>>)>> \o SortedByKey(MapRemove(m, k))

\* All the orders in which a HashMap with key set S may be iterated.
RECURSIVE HashOrders(_)
HashOrders(S) ==
    IF S = {} THEN {<<>>}
    ELSE UNION {{<<k>> \o o : o \in HashOrders(S \ {k})} : k \in S}

\* `ord` restricted to the keys of m: the iteration order of m.
RECURSIVE IterOrder(_, _)
IterOrder(ord, m) ==
    IF ord = <<>> THEN <<>>
    ELSE IF Head(ord) \in DOMAIN m
         THEN <<Head(ord)>> \o IterOrder(Tail(ord), m)
         ELSE IterOrder(Tail(ord), m)

---------------------------------------------------------------------------
(* apply_cut                                                               *)

CutResult(kind, lhs, rhs, skip) ==
    [kind |-> kind, inequality |-> LinearLessOrEqual(lhs, rhs), skip_early_backjump |-> skip]

NothingLearned == CutResult("NothingLearned", <<>>, 0, FALSE)
Overflow == CutResult("Overflow", <<>>, 0, FALSE)
Contradiction == CutResult("Contradiction", <<>>, 0, FALSE)
Success(lhs, rhs, skip) == CutResult("Success", lhs, rhs, skip)
\* An assertion of apply_cut failed, or an unwrap() of None.
AssertionFailed == CutResult("AssertionFailed", <<>>, 0, FALSE)
\* A debug build stopped on an arithmetic overflow of abs().
ArithmeticPanic == CutResult("ArithmeticPanic", <<>>, 0, FALSE)
NoCut == CutResult("None", <<>>, 0, FALSE)

\* for (id, scale) in c1.lhs.iter(): new_lhs.insert(id, mult_c1 * scale)
RECURSIVE scale_c1(_, _, _, _)
scale_c1(lhs, i, mult_c1, new_lhs) ==
    IF i > Len(lhs) THEN [overflow |-> FALSE, new_lhs |-> new_lhs]
    ELSE LET new_scale == checked_mul(mult_c1, lhs[i][2])
         IN  IF ~new_scale.some
             THEN [overflow |-> TRUE, new_lhs |-> new_lhs]
             ELSE scale_c1(lhs, i + 1, mult_c1, MapInsert(new_lhs, lhs[i][1], new_scale.v))

\* for (id, scale) in c2.lhs.iter(): add mult_c2 * scale to the entry of id,
\* drop the entry when it becomes 0, note a clash on another variable than var.
AddEntry(new_lhs, id, curr_scale) ==
    IF curr_scale = 0 THEN MapRemove(new_lhs, id) ELSE MapInsert(new_lhs, id, curr_scale)

\* Mutant of add_c2: a clash is noted only when the shared variable stays in
\* the sum.
RECURSIVE add_c2_clash_if_kept(_, _, _, _, _, _)
add_c2_clash_if_kept(lhs, i, mult_c2, var, new_lhs, skip) ==
    IF i > Len(lhs)
    THEN [overflow |-> FALSE, new_lhs |-> new_lhs, skip_early_backjump |-> skip]
    ELSE LET id == lhs[i][1]
             occupied == id \in DOMAIN new_lhs
             new_scale == checked_mul(mult_c2, lhs[i][2])
             curr_scale == IF occupied THEN new_lhs[id] ELSE 0
             curr_scale_safe == checked_add(curr_scale, new_scale.v)
         IN  IF ~new_scale.some \/ ~curr_scale_safe.some
             THEN [overflow |-> TRUE, new_lhs |-> new_lhs, skip_early_backjump |-> skip]
             ELSE add_c2_clash_if_kept(lhs, i + 1, mult_c2, var,
                      AddEntry(new_lhs, id, curr_scale_safe.v),
                      IF occupied /\ id # var /\ curr_scale_safe.v # 0 THEN FALSE ELSE skip)

RECURSIVE add_c2(_, _, _, _, _, _)
add_c2(lhs, i, mult_c2, var, new_lhs, skip) ==
    IF i > Len(lhs)
    THEN [overflow |-> FALSE, new_lhs |-> new_lhs, skip_early_backjump |-> skip]
    ELSE LET id == lhs[i][1]
             occupied == id \in DOMAIN new_lhs
             skip2 == IF occupied /\ id # var THEN FALSE ELSE skip
             new_scale == checked_mul(mult_c2, lhs[i][2])
             curr_scale == IF occupied THEN new_lhs[id] ELSE 0
             curr_scale_safe == checked_add(curr_scale, new_scale.v)
         IN  IF ~new_scale.some \/ ~curr_scale_safe.some
             THEN [overflow |-> TRUE, new_lhs |-> new_lhs, skip_early_backjump |-> skip2]
             ELSE add_c2(lhs, i + 1, mult_c2, var,
                         AddEntry(new_lhs, id, curr_scale_safe.v), skip2)

\* new_lhs.iter().map(scale).reduce(gcd), the map iterated in the order `it`;
\* panic: some call of gcd on the way takes abs() of i32::MIN.
RECURSIVE reduce_gcd(_, _, _, _, _)
reduce_gcd(it, i, new_lhs, acc, panic) ==
    IF i > Len(it) THEN [g |-> acc, panic |-> panic]
    ELSE reduce_gcd(it, i + 1, new_lhs, gcd(acc, new_lhs[it[i]]),
                    panic \/ gcd_panics(acc, new_lhs[it[i]]))

\* What apply_cut has computed when it reaches line 107, or the result it
\* has returned before: [done |-> TRUE, result] or [done |-> FALSE, new_lhs,
\* new_rhs, skip_early_backjump]; abs_panic: line 56 took abs() of i32::MIN,
\* where a debug build stops.
Returns(result) ==
    [done |-> TRUE, result |-> result, new_lhs |-> EmptyMap, new_rhs |-> 0,
     skip_early_backjump |-> FALSE, abs_panic |-> FALSE]
Summed(new_lhs, new_rhs, skip) ==
    [done |-> FALSE, result |-> NoCut, new_lhs |-> new_lhs, new_rhs |-> new_rhs,
     skip_early_backjump |-> skip, abs_panic |-> FALSE]

\* Lines 97-105: the right-hand side of the sum.
cut_rhs(c1, c2, mult_c1, mult_c2, new_lhs, skip) ==
    LET c1_rhs_scaled == checked_mul(c1.rhs, mult_c1)
        c2_rhs_scaled == checked_mul(c2.rhs, mult_c2)
        new_rhs == checked_add(c1_rhs_scaled.v, c2_rhs_scaled.v)
    IN  IF ~c1_rhs_scaled.some \/ ~c2_rhs_scaled.some \/ ~new_rhs.some
        THEN Returns(Overflow)
        ELSE Summed(new_lhs, new_rhs.v, skip)

\* Lines 60-95: the two loops and the assertion that var is gone.
cut_lhs(var, c1, c2, mult_c1, mult_c2) ==
    LET first == scale_c1(c1.lhs, 1, mult_c1, EmptyMap)
        second == add_c2(c2.lhs, 1, mult_c2, var, first.new_lhs, TRUE)
    IN  IF first.overflow THEN Returns(Overflow)
        ELSE IF second.overflow THEN Returns(Overflow)
        ELSE IF var \in DOMAIN second.new_lhs THEN Returns(AssertionFailed)
        ELSE cut_rhs(c1, c2, mult_c1, mult_c2, second.new_lhs, second.skip_early_backjump)

\* Mutant of cut_sum: each inequality is scaled by its own coefficient of var.
cut_sum_own_scale(var, c1, c2) ==
    LET c1_scale == find_variable_scale(c1.lhs, var)
        c2_scale == find_variable_scale(c2.lhs, var)
    IN  IF ~c1_scale.some \/ ~c2_scale.some THEN Returns(AssertionFailed)
        ELSE IF (c1_scale.v > 0) = (c2_scale.v > 0) THEN Returns(AssertionFailed)
        ELSE LET a1 == wrapping_abs(c1_scale.v)
                 a2 == wrapping_abs(c2_scale.v)
                 g == gcd(a1, a2)
             IN  cut_lhs(var, c1, c2, TruncDiv(a1, g), TruncDiv(a2, g))

\* Lines 51-105 of apply_cut(var, c1, c2), abs() wrapping as in a release
\* build and the panic of a debug build recorded in abs_panic.
cut_sum(var, c1, c2) ==
    LET c1_scale == find_variable_scale(c1.lhs, var)
        c2_scale == find_variable_scale(c2.lhs, var)
    IN  IF ~c1_scale.some \/ ~c2_scale.some THEN Returns(AssertionFailed)
        ELSE IF (c1_scale.v > 0) = (c2_scale.v > 0) THEN Returns(AssertionFailed)
        ELSE LET a1 == wrapping_abs(c1_scale.v)
                 a2 == wrapping_abs(c2_scale.v)
                 g == gcd(a1, a2)
             IN  [cut_lhs(var, c1, c2, TruncDiv(a2, g), TruncDiv(a1, g))
                    EXCEPT !.abs_panic = abs_panics(c1_scale.v) \/ abs_panics(c2_scale.v)
                                             \/ gcd_panics(a1, a2)]

\* Mutant of normalise: the divisor is the gcd of the coefficients alone, so
\* the division of the rhs rounds.
normalise_by_lhs_gcd(build, it, new_lhs, new_rhs, skip) ==
    LET red == reduce_gcd(it, 2, new_lhs, new_lhs[it[1]], FALSE)
    IN  IF build = "debug" /\ red.panic
        THEN ArithmeticPanic
        ELSE Success(SortedByKey([k \in DOMAIN new_lhs |-> div_ceil(new_lhs[k], red.g)]),
                     div_ceil(new_rhs, red.g), skip)

\* Lines 115-135: the normalisation of a non-empty sum, the HashMap
\* iterated in the order `it`.
normalise(build, it, new_lhs, new_rhs, skip) ==
    LET red == reduce_gcd(it, 2, new_lhs, new_lhs[it[1]], FALSE)
        new_gcd == gcd(red.g, new_rhs)
    IN  IF build = "debug" /\ (red.panic \/ gcd_panics(red.g, new_rhs))
        THEN ArithmeticPanic
        ELSE Success(SortedByKey([k \in DOMAIN new_lhs |-> div_ceil(new_lhs[k], new_gcd)]),
                     div_ceil(new_rhs, new_gcd), skip)

\* Mutant of cut_finish: an empty sum with rhs 0 counts as a contradiction.
cut_finish_zero_contradicts(build, ord, sum) ==
    IF build = "debug" /\ sum.abs_panic THEN ArithmeticPanic
    ELSE IF sum.done THEN sum.result
    ELSE IF DOMAIN sum.new_lhs = {}
         THEN IF sum.new_rhs <= 0 THEN Contradiction ELSE NothingLearned
         ELSE normalise(build, IterOrder(ord, sum.new_lhs), sum.new_lhs, sum.new_rhs,
                        sum.skip_early_backjump)

\* Lines 107-135 of apply_cut: the empty-lhs cases and the normalisation.
cut_finish(build, ord, sum) ==
    IF build = "debug" /\ sum.abs_panic THEN ArithmeticPanic
    ELSE IF sum.done THEN sum.result
    ELSE IF DOMAIN sum.new_lhs = {}
         THEN IF sum.new_rhs < 0 THEN Contradiction ELSE NothingLearned
         ELSE normalise(build, IterOrder(ord, sum.new_lhs), sum.new_lhs, sum.new_rhs,
                        sum.skip_early_backjump)

\* apply_cut(var, c1, c2) in the given build, the HashMap iterating in the
\* order `ord` (a permutation of the DomainIds other than var).
apply_cut(build, ord, var, c1, c2) == cut_finish(build, ord, cut_sum(var, c1, c2))

---------------------------------------------------------------------------
(* The domain store: initial bounds and the trail                          *)

\* Predicates: [x >= v] and [x <= v].
LowerBoundPredicate(x, v) == [domain |-> x, kind |-> "lb", value |-> v]
UpperBoundPredicate(x, v) == [domain |-> x, kind |-> "ub", value |-> v]

\* A trail entry: the predicate applied, its reason (None for a decision,
\* Some(PropagatorId) for a propagation) and the decision level it was made at.
TrailEntry(predicate, reason, level) ==
    [predicate |-> predicate, reason |-> reason, level |-> level]

\* Assignments: the initial bounds lb, ub of every DomainId, the trail and
\* the current decision level.
NewAssignments(lb, ub) == [lb |-> lb, ub |-> ub, trail |-> <<>>, decision_level |-> 0]

SetMax(S) == CHOOSE m \in S : \A y \in S : y <= m
SetMin(S) == CHOOSE m \in S : \A y \in S : m <= y

num_trail_entries(a) == Len(a.trail)
get_trail_entry(a, index) == a.trail[index + 1]
get_decision_level(a) == a.decision_level

\* The entries in effect immediately after entry trail_position (0-based).
EntriesUpTo(a, trail_position) == {i \in 1..Len(a.trail) : i - 1 <= trail_position}

lower_bound_at_trail_position(a, x, trail_position) ==
    SetMax({a.lb[x]} \cup {a.trail[i].predicate.value : i \in
        {j \in EntriesUpTo(a, trail_position) :
            a.trail[j].predicate.domain = x /\ a.trail[j].predicate.kind = "lb"}})

upper_bound_at_trail_position(a, x, trail_position) ==
    SetMin({a.ub[x]} \cup {a.trail[i].predicate.value : i \in
        {j \in EntriesUpTo(a, trail_position) :
            a.trail[j].predicate.domain = x /\ a.trail[j].predicate.kind = "ub"}})

lower_bound(a, x) == lower_bound_at_trail_position(a, x, USIZE_MAX)
upper_bound(a, x) == upper_bound_at_trail_position(a, x, USIZE_MAX)

\* The length of the trail including the whole of decision_level.
get_trail_position_for_decision_level(a, decision_level) ==
    Cardinality({i \in 1..Len(a.trail) : a.trail[i].level <= decision_level})

\* synchronise(L): the entries above level L are popped.
synchronise(a, new_decision_level) ==
    [a EXCEPT !.trail = SelectSeq(a.trail, LAMBDA e : e.level <= new_decision_level),
              !.decision_level = new_decision_level]

\* `index - 1` on usize: a panic in a debug build, a wrap in a release build.
usize_decrement_panics(build, index) == build = "debug" /\ index = 0
usize_decrement(index) == IF index = 0 THEN USIZE_MAX ELSE index - 1

---------------------------------------------------------------------------
(* Evaluating an inequality at a trail position                            *)

\* AffineView::map with offset 0: scale * value in i32.
map(scale, value) ==
    IF MulFits(scale, value) THEN scale * value ELSE wrapping_mul(scale, value)
map_panics(build, scale, value) == build = "debug" /\ ~MulFits(scale, value)

\* The value the scaled view's lower (upper) bound is mapped from.
lower_source(a, term, trail_position) ==
    IF term[2] < 0 THEN upper_bound_at_trail_position(a, term[1], trail_position)
    ELSE lower_bound_at_trail_position(a, term[1], trail_position)
upper_source(a, term, trail_position) ==
    IF term[2] < 0 THEN lower_bound_at_trail_position(a, term[1], trail_position)
    ELSE upper_bound_at_trail_position(a, term[1], trail_position)

scaled_lower_bound(a, term, trail_position) ==
    map(term[2], lower_source(a, term, trail_position))
scaled_upper_bound(a, term, trail_position) ==
    map(term[2], upper_source(a, term, trail_position))

lb_overflows(a, lhs, trail_position) ==
    \E i \in 1..Len(lhs) :
        ~checked_mul(lhs[i][2], lower_source(a, lhs[i], trail_position)).some

RECURSIVE lb_from(_, _, _, _)
lb_from(a, lhs, i, trail_position) ==
    IF i > Len(lhs) THEN I64(0)
    ELSE i64_add(I64(scaled_lower_bound(a, lhs[i], trail_position)),
                 lb_from(a, lhs, i + 1, trail_position))

lb(a, lhs, trail_position) == lb_from(a, lhs, 1, trail_position)

\* lb multiplies in i32 before it widens to i64.
lb_panics(build, a, lhs, trail_position) ==
    \E i \in 1..Len(lhs) :
        map_panics(build, lhs[i][2], lower_source(a, lhs[i], trail_position))

slack(a, c, trail_position) == i64_sub(I64(c.rhs), lb(a, c.lhs, trail_position))

is_conflicting(a, c, trail_position) == i64_lt(slack(a, c, trail_position), I64(0))

\* One round of the loop of is_propagating, on term i.
propagating_at(a, c, i, trail_position) ==
    LET lb_lhs == lb(a, c.lhs, trail_position)
        x_i_lower_bound == I64(scaled_lower_bound(a, c.lhs[i], trail_position))
        x_i_upper_bound == I64(scaled_upper_bound(a, c.lhs[i], trail_position))
        bound == i64_sub(I64(c.rhs), i64_sub(lb_lhs, x_i_lower_bound))
    IN  i64_lt(bound, x_i_upper_bound)

is_propagating(a, c, trail_position) ==
    \E i \in 1..Len(c.lhs) : propagating_at(a, c, i, trail_position)

\* is_propagating multiplies in i32 up to the term it returns at.
is_propagating_panics(build, a, c, trail_position) ==
    \/ lb_panics(build, a, c.lhs, trail_position)
    \/ \E i \in 1..Len(c.lhs) :
        /\ map_panics(build, c.lhs[i][2], upper_source(a, c.lhs[i], trail_position))
        /\ \A j \in 1..(i - 1) : ~propagating_at(a, c, j, trail_position)

overflows(a, c, trail_position) ==
    \/ lb_overflows(a, c.lhs, trail_position)
    \/ \E i \in 1..Len(c.lhs) :
        ~i64_is_i32(i64_add(slack(a, c, trail_position),
                            I64(scaled_lower_bound(a, c.lhs[i], trail_position))))

---------------------------------------------------------------------------
(* Propagators and the propagator queue                                    *)

\* A propagator of the store: the inequality it enforces, whether it can
\* explain itself with that inequality, and its priority.
Propagator(constraint, linear, priority) ==
    [constraint |-> constraint, linear |-> linear, priority |-> priority]

linear_inequality_explanation(propagator) ==
    IF propagator.linear THEN Some(propagator.constraint) ELSE None

\* PropagatorStore: ids count from 0.
get_propagator(propagators, propagator_id) == propagators[propagator_id + 1]
alloc(propagators, propagator) == Append(propagators, propagator)
next_propagator_id(propagators) == Len(propagators)

NumPriorityLevels == 5
LinearPriority == 2

PropagatorQueue_new(num_priority_levels) ==
    [queues |-> [p \in 0..(num_priority_levels - 1) |-> <<>>],
     present_propagators |-> {},
     present_priorities |-> <<>>]

is_propagator_enqueued(q, propagator_id) == propagator_id \in q.present_propagators

queue_is_empty(q) == q.present_propagators = {}

\* BinaryHeap<Reverse<u32>>: the priorities pushed, the least on top.
heap_peek(h) == SetMin({h[i] : i \in 1..Len(h)})
heap_pop(h) ==
    LET at == CHOOSE i \in 1..Len(h) : h[i] = heap_peek(h) /\ \A j \in 1..(i - 1) : h[j] # h[i]
    IN  SubSeq(h, 1, at - 1) \o SubSeq(h, at + 1, Len(h))

\* enqueue_propagator without the test for presence.
enqueue_propagator_unchecked(q, propagator_id, priority) ==
    [queues |-> [q.queues EXCEPT ![priority] = Append(@, propagator_id)],
     present_propagators |-> q.present_propagators \cup {propagator_id},
     present_priorities |-> IF q.queues[priority] = <<>>
                            THEN Append(q.present_priorities, priority)
                            ELSE q.present_priorities]

enqueue_propagator(q, propagator_id, priority) ==
    IF is_propagator_enqueued(q, propagator_id) THEN q
    ELSE [queues |-> [q.queues EXCEPT ![priority] = Append(@, propagator_id)],
          present_propagators |-> q.present_propagators \cup {propagator_id},
          present_priorities |-> IF q.queues[priority] = <<>>
                                 THEN Append(q.present_priorities, priority)
                                 ELSE q.present_priorities]

\* The propagator enqueued last at the top priority.
queue_front_newest(q) ==
    LET top == q.queues[heap_peek(q.present_priorities)] IN top[Len(top)]

queue_front(q) == Head(q.queues[heap_peek(q.present_priorities)])

\* Mutant of queue_pop: the priority stays recorded when its queue empties.
queue_pop_keeps_priority(q) ==
    LET top_priority == heap_peek(q.present_priorities)
    IN  [queues |-> [q.queues EXCEPT ![top_priority] = Tail(q.queues[top_priority])],
         present_propagators |-> q.present_propagators \ {queue_front(q)},
         present_priorities |-> q.present_priorities]

queue_pop(q) ==
    LET top_priority == heap_peek(q.present_priorities)
        rest == Tail(q.queues[top_priority])
    IN  [queues |-> [q.queues EXCEPT ![top_priority] = rest],
         present_propagators |-> q.present_propagators \ {queue_front(q)},
         present_priorities |-> IF rest = <<>> THEN heap_pop(q.present_priorities)
                                ELSE q.present_priorities]

\* clear that forgets who is present and leaves the queues as they are.
queue_clear_presence_only(q) ==
    [queues |-> q.queues, present_propagators |-> {}, present_priorities |-> <<>>]

queue_clear(q) ==
    [queues |-> [p \in DOMAIN q.queues |->
                    IF \E i \in 1..Len(q.present_priorities) : q.present_priorities[i] = p
                    THEN <<>> ELSE q.queues[p]],
     present_propagators |-> {},
     present_priorities |-> <<>>]

---------------------------------------------------------------------------
(* Propagation of a linear inequality and the watch lists                  *)

\* scale * k as an i64, for a small k.
i64_scale(scale, k) == i64_norm(Hi(scale) * k, Lo(scale) * k)

RECURSIVE exact_lb_from(_, _, _)
exact_lb_from(a, lhs, i) ==
    IF i > Len(lhs) THEN I64(0)
    ELSE i64_add(i64_scale(lhs[i][2], lower_source(a, lhs[i], USIZE_MAX)),
                 exact_lb_from(a, lhs, i + 1))

\* rhs - lb_lhs under the current bounds.
exact_slack(a, c) == i64_sub(I64(c.rhs), exact_lb_from(a, c.lhs, 1))

propagator_conflicts(a, c) == i64_lt(exact_slack(a, c), I64(0))

\* The predicate term (x, scale) propagates under slack s: the upper bound
\* lb(x) + floor(s / scale) for scale > 0, the lower bound
\* ub(x) - floor(s / -scale) for scale < 0.
propagated_predicate(a, term, s) ==
    LET x == term[1]
        l == lower_bound(a, x)
        u == upper_bound(a, x)
    IN  IF term[2] > 0
        THEN UpperBoundPredicate(x,
                SetMax({v \in l..u : ~i64_lt(s, i64_scale(term[2], v - l))}))
        ELSE LowerBoundPredicate(x,
                SetMin({v \in l..u : ~i64_lt(s, i64_scale(term[2], v - u))}))

predicate_holds(a, predicate) ==
    IF predicate.kind = "lb" THEN lower_bound(a, predicate.domain) >= predicate.value
    ELSE upper_bound(a, predicate.domain) <= predicate.value

\* The store after predicate is applied with the given reason.
post(a, predicate, reason) ==
    IF predicate_holds(a, predicate) THEN a
    ELSE [a EXCEPT !.trail = Append(@, TrailEntry(predicate, reason, a.decision_level))]

\* A learned nogood kept as a propagator: the predicates that must not all
\* hold. It has no linear explanation and runs before the inequalities.
NogoodPriority == 0
NogoodPropagator(predicates) ==
    [constraint |-> LinearLessOrEqual(<<>>, 0), linear |-> FALSE,
     priority |-> NogoodPriority, predicates |-> predicates]
is_nogood(propagator) == "predicates" \in DOMAIN propagator

\* The propagators watching the event of predicate: a linear inequality
\* watches the lower bound of a variable with a positive scale and the upper
\* bound of one with a negative scale; a nogood watches the bounds its
\* predicates are about.
watches(propagator, predicate) ==
    IF is_nogood(propagator)
    THEN \E i \in 1..Len(propagator.predicates) :
             /\ propagator.predicates[i].domain = predicate.domain
             /\ propagator.predicates[i].kind = predicate.kind
    ELSE \E i \in 1..Len(propagator.constraint.lhs) :
             /\ propagator.constraint.lhs[i][1] = predicate.domain
             /\ (propagator.constraint.lhs[i][2] > 0) = (predicate.kind = "lb")

RECURSIVE notify_from(_, _, _, _)
notify_from(q, propagators, predicate, id) ==
    IF id >= Len(propagators) THEN q
    ELSE notify_from(IF watches(get_propagator(propagators, id), predicate)
                     THEN enqueue_propagator(q, id, get_propagator(propagators, id).priority)
                     ELSE q,
                     propagators, predicate, id + 1)

notify(q, propagators, predicate) == notify_from(q, propagators, predicate, 0)

\* Every propagator of the store enqueued, in the order of the ids.
RECURSIVE enqueue_all(_, _, _)
enqueue_all(q, propagators, id) ==
    IF id >= Len(propagators) THEN q
    ELSE enqueue_all(enqueue_propagator(q, id, get_propagator(propagators, id).priority),
                     propagators, id + 1)

\* The bounds of the terms of c from term i on, applied in order.
RECURSIVE propagate_from(_, _, _, _, _, _)
propagate_from(ctx, propagators, c, s, id, i) ==
    IF i > Len(c.lhs) THEN ctx
    ELSE LET predicate == propagated_predicate(ctx.assignments, c.lhs[i], s)
             changed == ~predicate_holds(ctx.assignments, predicate)
         IN  propagate_from(
                 [assignments |-> post(ctx.assignments, predicate, Some(id)),
                  propagator_queue |-> IF changed
                                       THEN notify(ctx.propagator_queue, propagators, predicate)
                                       ELSE ctx.propagator_queue],
                 propagators, c, s, id, i + 1)

---------------------------------------------------------------------------
(* The conflict resolver                                                   *)

trivially_true == [domain |-> 0, kind |-> "true", value |-> 1]
trivially_false == [domain |-> 0, kind |-> "false", value |-> 0]

\* Option<ConflictResolveResult>.
ResolveResult(kind, predicates, constraint, level) ==
    [kind |-> kind, predicates |-> predicates, constraint |-> constraint,
     backjump_level |-> level]
NoResult == ResolveResult("None", <<>>, LinearLessOrEqual(<<>>, 0), 0)
Nogood(predicates, backjump_level) ==
    ResolveResult("Nogood", predicates, LinearLessOrEqual(<<>>, 0), backjump_level)
Constraint(constraint, backjump_level) ==
    ResolveResult("Constraint", <<>>, constraint, backjump_level)

\* StoredConflictInfo.
NoConflict == [kind |-> "None", propagator_id |-> 0]
PropagatorConflict(propagator_id) == [kind |-> "Propagator", propagator_id |-> propagator_id]
EmptyDomain == [kind |-> "EmptyDomain", propagator_id |-> 0]

NoEntry == TrailEntry(trivially_true, None, 0)

\* The resolution resolver learns a nogood over predicates: here the
\* decisions of the trail, which cannot all hold, asserting one level down.
decisions(a) ==
    LET made == SelectSeq(a.trail, LAMBDA e : ~e.reason.some)
    IN  [i \in 1..Len(made) |-> made[i].predicate]

resolution_resolve_conflict(a) ==
    Nogood(decisions(a), IF a.decision_level = 0 THEN 0 ELSE a.decision_level - 1)

\* The resolver at work: where it stands (pc), its local variables, the
\* result it returned, the counters of the context it updated and the last
\* reason it logged for falling back.
NoCounters == [intsat_fallback_used |-> 0, intsat_learned_constraints |-> 0,
               resolution_calls |-> 0]

panic(m) == [m EXCEPT !.pc = "panicked"]

\* Mutant of apply_fallback: the fallback is counted but its result is dropped.
apply_fallback_dropped(m, a, reason) ==
    [m EXCEPT !.pc = "returned",
              !.resolve_result = Nogood(<<trivially_true>>, 0),
              !.counters.intsat_fallback_used = @ + 1,
              !.counters.resolution_calls = @ + 1,
              !.fallback_reason = reason]

apply_fallback(m, a, reason) ==
    [m EXCEPT !.pc = "returned",
              !.resolve_result = resolution_resolve_conflict(a),
              !.counters.intsat_fallback_used = @ + 1,
              !.counters.resolution_calls = @ + 1,
              !.fallback_reason = reason]

\* The inequality the conflict starts from, or the reason there is none.
conflict_explanation(a, propagators, conflict_info) ==
    IF conflict_info.kind = "Propagator"
    THEN LET e == linear_inequality_explanation(
                      get_propagator(propagators, conflict_info.propagator_id))
         IN  [explanation |-> e,
              reason |-> "Conflict caused by propagator that cannot explain with linear inequality"]
    ELSE LET last_entry == get_trail_entry(a, num_trail_entries(a) - 1)
         IN  IF ~last_entry.reason.some
             THEN [explanation |-> None, reason |-> "Empty domain because of decision"]
             ELSE [explanation |-> linear_inequality_explanation(
                                       get_propagator(propagators, last_entry.reason.v)),
                   reason |-> "Empty domain caused by propagator that cannot explain with linear inequality"]

\* resolve_conflict up to its main loop.
resolve_start(a, propagators, conflict_info, is_completing_proof, m) ==
    IF is_completing_proof THEN apply_fallback(m, a, "Completing proof")
    ELSE IF get_decision_level(a) = 0 \/ conflict_info.kind \notin {"Propagator", "EmptyDomain"}
    THEN panic(m)
    ELSE LET found == conflict_explanation(a, propagators, conflict_info)
         IN  IF ~found.explanation.some THEN apply_fallback(m, a, found.reason)
             ELSE [m EXCEPT !.pc = "scan",
                            !.conflicting_constraint = found.explanation.v,
                            !.trail_index = num_trail_entries(a) - 1]

\* `trail_index -= 1`, then what the loop does next.
decrement_then(build, m, pc) ==
    IF usize_decrement_panics(build, m.trail_index) THEN panic(m)
    ELSE [m EXCEPT !.trail_index = usize_decrement(m.trail_index), !.pc = pc]

\* One round of the inner loop: the trail entry at trail_index.
scan_step(build, a, m) ==
    IF m.trail_index >= num_trail_entries(a) THEN panic(m)
    ELSE LET trail_entry == get_trail_entry(a, m.trail_index)
             trail_entry_var == trail_entry.predicate.domain
         IN  IF ~trail_entry.reason.some THEN apply_fallback(m, a, "Decision reached")
             ELSE IF ~contains_variable(m.conflicting_constraint.lhs, trail_entry_var)
             THEN decrement_then(build, m, "scan")
             ELSE IF lb_panics(build, a, m.conflicting_constraint.lhs, m.trail_index)
             THEN panic(m)
             ELSE IF is_conflicting(a, m.conflicting_constraint, m.trail_index)
             THEN decrement_then(build, [m EXCEPT !.trail_entry = trail_entry], "cut")
             ELSE decrement_then(build, m, "scan")

\* Mutant of explain_step: the signs of the two coefficients are not compared.
explain_step_unsigned(a, propagators, m) ==
    LET propagator == get_propagator(propagators, m.trail_entry.reason.v)
        prop_constraint_expl_opt == linear_inequality_explanation(propagator)
    IN  IF ~prop_constraint_expl_opt.some
        THEN [done |-> TRUE, m |-> apply_fallback(m, a, "Detected nogoods")]
        ELSE [done |-> FALSE, m |-> m]

\* The explanation of the reason of trail_entry and the sign check: the
\* round ends here (done), or the cut of conflicting_constraint with
\* explanation on cutting_var is due.
explain_step(a, propagators, m) ==
    LET propagator == get_propagator(propagators, m.trail_entry.reason.v)
        prop_constraint_expl_opt == linear_inequality_explanation(propagator)
        cutting_var == m.trail_entry.predicate.domain
        c1_scale == find_variable_scale(m.conflicting_constraint.lhs, cutting_var)
        c2_scale == find_variable_scale(prop_constraint_expl_opt.v.lhs, cutting_var)
    IN  IF ~prop_constraint_expl_opt.some
        THEN [done |-> TRUE, m |-> apply_fallback(m, a, "Detected nogoods")]
        ELSE IF ~c1_scale.some \/ ~c2_scale.some
        THEN [done |-> TRUE, m |-> panic(m)]
        ELSE IF (c1_scale.v > 0) = (c2_scale.v > 0)
        THEN [done |-> TRUE, m |-> [m EXCEPT !.pc = "scan"]]
        ELSE [done |-> FALSE, m |-> m]

\* Mutant of adopt_cut: a Contradiction is handed to the resolution fallback.
adopt_cut_contradiction_falls_back(a, m, cut) ==
    IF cut.kind = "NothingLearned" THEN apply_fallback(m, a, "Nothing learned")
    ELSE IF cut.kind = "Overflow" THEN apply_fallback(m, a, "Overflow")
    ELSE IF cut.kind = "Contradiction" THEN apply_fallback(m, a, "Contradiction")
    ELSE IF cut.kind # "Success" THEN panic(m)
    ELSE IF overflows(a, cut.inequality, m.trail_index)
    THEN apply_fallback(m, a, "Overflow")
    ELSE IF ~is_conflicting(a, cut.inequality, m.trail_index)
    THEN apply_fallback(m, a, "Not conflicting")
    ELSE [m EXCEPT !.conflicting_constraint = cut.inequality,
                   !.pc = IF cut.skip_early_backjump THEN "scan" ELSE "backjump",
                   !.backjump_level = 0]

\* Mutant of adopt_cut: the cut result is adopted without testing whether it
\* is conflicting at trail_index.
adopt_cut_unchecked(a, m, cut) ==
    IF cut.kind = "NothingLearned" THEN apply_fallback(m, a, "Nothing learned")
    ELSE IF cut.kind = "Overflow" THEN apply_fallback(m, a, "Overflow")
    ELSE IF cut.kind = "Contradiction"
    THEN [m EXCEPT !.pc = "returned", !.resolve_result = Nogood(<<trivially_true>>, 0)]
    ELSE IF cut.kind # "Success" THEN panic(m)
    ELSE IF overflows(a, cut.inequality, m.trail_index)
    THEN apply_fallback(m, a, "Overflow")
    ELSE [m EXCEPT !.conflicting_constraint = cut.inequality,
                   !.pc = IF cut.skip_early_backjump THEN "scan" ELSE "backjump",
                   !.backjump_level = 0]

\* Mutant of adopt_cut: the backjump levels are examined after every cut.
adopt_cut_never_skips(a, m, cut) ==
    IF cut.kind = "NothingLearned" THEN apply_fallback(m, a, "Nothing learned")
    ELSE IF cut.kind = "Overflow" THEN apply_fallback(m, a, "Overflow")
    ELSE IF cut.kind = "Contradiction"
    THEN [m EXCEPT !.pc = "returned", !.resolve_result = Nogood(<<trivially_true>>, 0)]
    ELSE IF cut.kind # "Success" THEN panic(m)
    ELSE IF overflows(a, cut.inequality, m.trail_index)
    THEN apply_fallback(m, a, "Overflow")
    ELSE IF ~is_conflicting(a, cut.inequality, m.trail_index)
    THEN apply_fallback(m, a, "Not conflicting")
    ELSE [m EXCEPT !.conflicting_constraint = cut.inequality,
                   !.pc = "backjump",
                   !.backjump_level = 0]

\* What resolve_conflict does with the result of apply_cut.
adopt_cut(a, m, cut) ==
    IF cut.kind = "NothingLearned" THEN apply_fallback(m, a, "Nothing learned")
    ELSE IF cut.kind = "Overflow" THEN apply_fallback(m, a, "Overflow")
    ELSE IF cut.kind = "Contradiction"
    THEN [m EXCEPT !.pc = "returned", !.resolve_result = Nogood(<<trivially_true>>, 0)]
    ELSE IF cut.kind # "Success" THEN panic(m)
    ELSE IF overflows(a, cut.inequality, m.trail_index)
    THEN apply_fallback(m, a, "Overflow")
    ELSE IF ~is_conflicting(a, cut.inequality, m.trail_index)
    THEN apply_fallback(m, a, "Not conflicting")
    ELSE [m EXCEPT !.conflicting_constraint = cut.inequality,
                   !.pc = IF cut.skip_early_backjump THEN "scan" ELSE "backjump",
                   !.backjump_level = 0]

\* The largest |scale| of the statistics: i32::abs on every scale.
statistics_panic(build, c) ==
    build = "debug" /\ \E i \in 1..Len(c.lhs) : abs_panics(c.lhs[i][2])

\* One round of `for backjump_level in 0..current_decision_level`.
backjump_step(build, a, m) ==
    IF m.backjump_level >= get_decision_level(a) THEN [m EXCEPT !.pc = "scan"]
    ELSE LET position == get_trail_position_for_decision_level(a, m.backjump_level)
             backjump_trail_level == usize_decrement(position)
             c == m.conflicting_constraint
         IN  IF usize_decrement_panics(build, position) THEN panic(m)
             ELSE IF overflows(a, c, backjump_trail_level)
             THEN apply_fallback(m, a, "Overflow")
             ELSE IF is_propagating_panics(build, a, c, backjump_trail_level) THEN panic(m)
             ELSE IF \/ is_propagating(a, c, backjump_trail_level)
                     \/ is_conflicting(a, c, backjump_trail_level)
             THEN IF statistics_panic(build, c) THEN panic(m)
                  ELSE [m EXCEPT !.pc = "returned",
                                 !.resolve_result = Constraint(c, m.backjump_level),
                                 !.counters.resolution_calls = @ + 1,
                                 !.counters.intsat_learned_constraints = @ + 1]
             ELSE [m EXCEPT !.backjump_level = @ + 1]

---------------------------------------------------------------------------
(* process: the result of resolve_conflict is installed                    *)

\* ConflictAnalysisContext::backtrack.
\* backtrack that synchronises the store and leaves the queue as it is.
backtrack_keeps_queue(ctx, backjump_level) ==
    [ctx EXCEPT !.assignments = synchronise(@, backjump_level)]

backtrack(ctx, backjump_level) ==
    [ctx EXCEPT !.assignments = synchronise(@, backjump_level),
                !.propagator_queue = queue_clear(@)]

\* LinearLessOrEqualPropagator::new_learned(constraint.to_vars(), constraint.rhs).
new_learned(constraint) == Propagator(constraint, TRUE, LinearPriority)

\* Initialisation fails when the inequality is conflicting under the bounds
\* it is initialised against.
initialise_at_non_root(a, propagator) ==
    IF propagator_conflicts(a, propagator.constraint) THEN "Err" ELSE "Ok"

\* ResolutionResolver::process: backtrack and assert the nogood; a nogood
\* whose only predicate is trivially true cannot be asserted.
resolution_process(ctx, resolve_result) ==
    [backtrack(ctx, resolve_result.backjump_level) EXCEPT
        !.process_result = IF resolve_result.predicates = <<trivially_true>>
                           THEN "Err" ELSE "Ok"]

\* Mutant of process: the new propagator is enqueued before the backtrack.
process_enqueue_first(ctx, resolve_result) ==
    IF resolve_result.kind # "Constraint" THEN resolution_process(ctx, resolve_result)
    ELSE LET new_propagator_id == next_propagator_id(ctx.propagators)
             new_linear_prop == new_learned(resolve_result.constraint)
             enqueued == [ctx EXCEPT !.propagator_queue = enqueue_propagator(
                                         @, new_propagator_id, new_linear_prop.priority)]
             backtracked == backtrack(enqueued, resolve_result.backjump_level)
         IN  [backtracked EXCEPT
                 !.propagators = alloc(@, new_linear_prop),
                 !.initialised = initialise_at_non_root(backtracked.assignments,
                                                        new_linear_prop),
                 !.process_result = "Ok"]

\* Mutant of process: the learned inequality is installed at the level of the
\* conflict, without the backjump.
process_without_backjump(ctx, resolve_result) ==
    IF resolve_result.kind # "Constraint" THEN resolution_process(ctx, resolve_result)
    ELSE LET new_linear_prop == new_learned(resolve_result.constraint)
             new_propagator_id == next_propagator_id(ctx.propagators)
         IN  [ctx EXCEPT
                 !.propagators = alloc(@, new_linear_prop),
                 !.initialised = initialise_at_non_root(ctx.assignments, new_linear_prop),
                 !.propagator_queue = enqueue_propagator(
                                          @, new_propagator_id, new_linear_prop.priority),
                 !.process_result = "Ok"]

process(ctx, resolve_result) ==
    IF resolve_result.kind # "Constraint" THEN resolution_process(ctx, resolve_result)
    ELSE LET backtracked == backtrack(ctx, resolve_result.backjump_level)
             new_linear_prop == new_learned(resolve_result.constraint)
             new_propagator_id == next_propagator_id(backtracked.propagators)
         IN  [backtracked EXCEPT
                 !.propagators = alloc(@, new_linear_prop),
                 !.initialised = initialise_at_non_root(backtracked.assignments,
                                                        new_linear_prop),
                 !.propagator_queue = enqueue_propagator(
                                          @, new_propagator_id, new_linear_prop.priority),
                 !.process_result = "Ok"]

---------------------------------------------------------------------------
(* The search around the resolver: nogoods and the propagation fixpoint    *)

\* !predicate on a bound predicate.
negate(predicate) ==
    IF predicate.kind = "lb" THEN UpperBoundPredicate(predicate.domain, predicate.value - 1)
    ELSE LowerBoundPredicate(predicate.domain, predicate.value + 1)

\* The predicates of a nogood that do not hold.
open_predicates(a, predicates) ==
    {i \in 1..Len(predicates) : ~predicate_holds(a, predicates[i])}

nogood_conflicts(a, predicates) == open_predicates(a, predicates) = {}

\* A nogood with a single predicate left open makes that predicate false.
nogood_propagate(ctx, propagators, predicates, id) ==
    LET open == open_predicates(ctx.assignments, predicates)
        asserted == negate(predicates[CHOOSE i \in open : TRUE])
    IN  IF Cardinality(open) # 1 \/ predicate_holds(ctx.assignments, asserted) THEN ctx
        ELSE [assignments |-> post(ctx.assignments, asserted, Some(id)),
              propagator_queue |-> notify(ctx.propagator_queue, propagators, asserted)]

\* One propagator run on the store, whatever its kind.
propagator_fails(a, propagator) ==
    IF is_nogood(propagator) THEN nogood_conflicts(a, propagator.predicates)
    ELSE propagator_conflicts(a, propagator.constraint)

propagator_run(ctx, propagators, id) ==
    LET propagator == get_propagator(propagators, id)
    IN  IF is_nogood(propagator)
        THEN nogood_propagate(ctx, propagators, propagator.predicates, id)
        ELSE propagate_from(ctx, propagators, propagator.constraint,
                            exact_slack(ctx.assignments, propagator.constraint), id, 1)

\* ResolutionResolver::process: backtrack, keep the nogood, and make the
\* predicate it asserts false; Err when there is nothing to assert.
nogood_process(ctx, resolve_result) ==
    IF resolve_result.predicates = <<>> \/ resolve_result.predicates = <<trivially_true>>
    THEN [backtrack(ctx, resolve_result.backjump_level) EXCEPT !.process_result = "Err"]
    ELSE LET backtracked == backtrack(ctx, resolve_result.backjump_level)
             id == next_propagator_id(backtracked.propagators)
             stored == alloc(backtracked.propagators,
                             NogoodPropagator(resolve_result.predicates))
             run == nogood_propagate([assignments |-> backtracked.assignments,
                                      propagator_queue |-> backtracked.propagator_queue],
                                     stored, resolve_result.predicates, id)
         IN  [backtracked EXCEPT !.propagators = stored,
                                 !.assignments = run.assignments,
                                 !.propagator_queue = run.propagator_queue,
                                 !.process_result = "Ok"]

\* IntSatConflictResolver::process with the resolution resolver's process
\* behind it.
solve_process(ctx, resolve_result) ==
    IF resolve_result.kind = "Constraint" THEN process(ctx, resolve_result)
    ELSE nogood_process(ctx, resolve_result)

---------------------------------------------------------------------------
(* NoLearningResolver: no analysis, the last decision is undone and its     *)
(* negation asserted one level down                                         *)

\* The last decision of the trail, None when it holds none.
find_last_decision(a) ==
    LET made == decisions(a)
    IN  IF Len(made) = 0 THEN None ELSE Some(made[Len(made)])

\* The reason of a predicate that was enqueued, not decided.
EnqueuedReason == Some(0)

enqueue_propagated_predicate(ctx, predicate) ==
    [ctx EXCEPT !.assignments = post(@, predicate, EnqueuedReason),
                !.propagator_queue = notify(@, ctx.propagators, predicate)]

no_learning_resolve_conflict(ctx) == NoResult

\* process with the two calls in the other order: the predicate is enqueued
\* before the backtrack.
no_learning_process_enqueue_first(ctx, resolve_result) ==
    LET last_decision == find_last_decision(ctx.assignments)
    IN  IF last_decision.some
        THEN [backtrack(enqueue_propagated_predicate(ctx, negate(last_decision.v)),
                        get_decision_level(ctx.assignments) - 1)
                 EXCEPT !.process_result = "Ok"]
        ELSE [ctx EXCEPT !.process_result = "Err"]

no_learning_process(ctx, resolve_result) ==
    LET last_decision == find_last_decision(ctx.assignments)
    IN  IF last_decision.some
        THEN [enqueue_propagated_predicate(
                  backtrack(ctx, get_decision_level(ctx.assignments) - 1),
                  negate(last_decision.v))
                 EXCEPT !.process_result = "Ok"]
        ELSE [ctx EXCEPT !.process_result = "Err"]

\* pumpkin_assert_simple!(resolve_result.is_none()).
no_learning_process_panics(resolve_result) == resolve_result # NoResult

---------------------------------------------------------------------------
(* The integer store behind the engine: holes, and the operations that     *)
(* change a domain without notifying anybody                               *)

NotEqualPredicate(x, v) == [domain |-> x, kind |-> "ne", value |-> v]

\* The interior values of x removed so far.
holes(a, x) ==
    {a.trail[i].predicate.value : i \in
        {j \in 1..Len(a.trail) : a.trail[j].predicate.domain = x
                                 /\ a.trail[j].predicate.kind = "ne"}}

\* DomainOperationOutcome and the store it leaves.
StoreOutcome(outcome, a) == [outcome |-> outcome, assignments |-> a]

appended(a, predicate, reason) ==
    [a EXCEPT !.trail = Append(@, TrailEntry(predicate, reason, a.decision_level))]

tighten_lower_bound_no_notify(a, x, v, reason) ==
    IF v > upper_bound(a, x) THEN StoreOutcome("Failure", a)
    ELSE IF v > lower_bound(a, x)
    THEN StoreOutcome("Success", appended(a, LowerBoundPredicate(x, v), reason))
    ELSE StoreOutcome("Success", a)

tighten_upper_bound_no_notify(a, x, v, reason) ==
    IF v < lower_bound(a, x) THEN StoreOutcome("Failure", a)
    ELSE IF v < upper_bound(a, x)
    THEN StoreOutcome("Success", appended(a, UpperBoundPredicate(x, v), reason))
    ELSE StoreOutcome("Success", a)

\* Both bounds tightened to v.
make_assignment_no_notify(a, x, v, reason) ==
    LET lower == tighten_lower_bound_no_notify(a, x, v, reason)
    IN  IF lower.outcome = "Failure" THEN lower
        ELSE tighten_upper_bound_no_notify(lower.assignments, x, v, reason)

\* The values x can still take.
remaining(a, x) == {w \in lower_bound(a, x)..upper_bound(a, x) : w \notin holes(a, x)}

remove_value_from_domain_no_notify(a, x, v, reason) ==
    IF v < lower_bound(a, x) \/ v > upper_bound(a, x) THEN StoreOutcome("Success", a)
    ELSE IF remaining(a, x) \ {v} = {} THEN StoreOutcome("Failure", a)
    ELSE IF v = lower_bound(a, x)
    THEN StoreOutcome("Success",
             appended(a, LowerBoundPredicate(x, SetMin(remaining(a, x) \ {v})), reason))
    ELSE IF v = upper_bound(a, x)
    THEN StoreOutcome("Success",
             appended(a, UpperBoundPredicate(x, SetMax(remaining(a, x) \ {v})), reason))
    ELSE IF v \in holes(a, x) THEN StoreOutcome("Success", a)
    ELSE StoreOutcome("Success", appended(a, NotEqualPredicate(x, v), reason))

---------------------------------------------------------------------------
(* The watch lists: for a DomainId and an event, the propagators to notify *)

Events == {"LowerBound", "UpperBound", "Assign", "Hole"}

\* The watchers of <<x, event>>, none if nothing was registered.
watchers(watch_list, x, event) ==
    IF <<x, event>> \in DOMAIN watch_list THEN watch_list[<<x, event>>] ELSE <<>>

\* The watchers from the i-th on are enqueued, each with its own priority.
RECURSIVE notify_subscribed_from(_, _, _, _)
notify_subscribed_from(subscribed, cp_propagators, q, i) ==
    IF i > Len(subscribed) THEN q
    ELSE notify_subscribed_from(subscribed, cp_propagators,
             enqueue_propagator(q, subscribed[i],
                                get_propagator(cp_propagators, subscribed[i]).priority),
             i + 1)

notify_lower_bound_subscribed_propagators(watch_list, x, cp_propagators, q) ==
    notify_subscribed_from(watchers(watch_list, x, "LowerBound"), cp_propagators, q, 1)

notify_upper_bound_subscribed_propagators(watch_list, x, cp_propagators, q) ==
    notify_subscribed_from(watchers(watch_list, x, "UpperBound"), cp_propagators, q, 1)

notify_assign_subscribed_propagators(watch_list, x, cp_propagators, q) ==
    notify_subscribed_from(watchers(watch_list, x, "Assign"), cp_propagators, q, 1)

notify_hole_subscribed_propagators(watch_list, x, cp_propagators, q) ==
    notify_subscribed_from(watchers(watch_list, x, "Hole"), cp_propagators, q, 1)

---------------------------------------------------------------------------
(* CPEngineDataStructures: a domain operation followed by its              *)
(* notifications.  An engine is [assignments, watch_list_cp,               *)
(* propagator_queue]; an operation returns its outcome, the engine it      *)
(* leaves and the events whose watchers it notified, in order.             *)

Engine(a, watch_list, q) ==
    [assignments |-> a, watch_list_cp |-> watch_list, propagator_queue |-> q]

EngineOutcome(outcome, e, notified) == [outcome |-> outcome, engine |-> e, notified |-> notified]

\* Mutant of tighten_lower_bound: the LowerBound watchers are notified
\* whatever the outcome.
tighten_lower_bound_notifies_on_failure(e, integer_variable, new_lower_bound, propagator_reason, cp_propagators) ==
    LET outcome == tighten_lower_bound_no_notify(e.assignments, integer_variable,
                                                 new_lower_bound, propagator_reason)
        after == [e EXCEPT !.assignments = outcome.assignments]
    IN  EngineOutcome(outcome.outcome,
            [after EXCEPT !.propagator_queue =
                notify_lower_bound_subscribed_propagators(e.watch_list_cp,
                    integer_variable, cp_propagators, @)],
            <<"LowerBound">>)

tighten_lower_bound(e, integer_variable, new_lower_bound, propagator_reason, cp_propagators) ==
    LET outcome == tighten_lower_bound_no_notify(e.assignments, integer_variable,
                                                 new_lower_bound, propagator_reason)
        after == [e EXCEPT !.assignments = outcome.assignments]
    IN  IF outcome.outcome = "Success"
        THEN EngineOutcome("Success",
                 [after EXCEPT !.propagator_queue =
                     notify_lower_bound_subscribed_propagators(e.watch_list_cp,
                         integer_variable, cp_propagators, @)],
                 <<"LowerBound">>)
        ELSE EngineOutcome("Failure", after, <<>>)

tighten_upper_bound(e, integer_variable, new_upper_bound, propagator_reason, cp_propagators) ==
    LET outcome == tighten_upper_bound_no_notify(e.assignments, integer_variable,
                                                 new_upper_bound, propagator_reason)
        after == [e EXCEPT !.assignments = outcome.assignments]
    IN  IF outcome.outcome = "Success"
        THEN EngineOutcome("Success",
                 [after EXCEPT !.propagator_queue =
                     notify_upper_bound_subscribed_propagators(e.watch_list_cp,
                         integer_variable, cp_propagators, @)],
                 <<"UpperBound">>)
        ELSE EngineOutcome("Failure", after, <<>>)

make_assignment(e, integer_variable, assigned_value, propagator_reason, cp_propagators) ==
    LET old_lower_bound == lower_bound(e.assignments, integer_variable)
        old_upper_bound == upper_bound(e.assignments, integer_variable)
        outcome == make_assignment_no_notify(e.assignments, integer_variable,
                                             assigned_value, propagator_reason)
        new_lower_bound == lower_bound(outcome.assignments, integer_variable)
        new_upper_bound == upper_bound(outcome.assignments, integer_variable)
        after == [e EXCEPT !.assignments = outcome.assignments]
        q1 == IF old_lower_bound < new_lower_bound
              THEN notify_lower_bound_subscribed_propagators(e.watch_list_cp,
                       integer_variable, cp_propagators, e.propagator_queue)
              ELSE e.propagator_queue
        q2 == IF old_upper_bound > new_upper_bound
              THEN notify_upper_bound_subscribed_propagators(e.watch_list_cp,
                       integer_variable, cp_propagators, q1)
              ELSE q1
        q3 == notify_assign_subscribed_propagators(e.watch_list_cp, integer_variable,
                                                   cp_propagators, q2)
    IN  IF outcome.outcome = "Success"
        THEN EngineOutcome("Success", [after EXCEPT !.propagator_queue = q3],
                 (IF old_lower_bound < new_lower_bound THEN <<"LowerBound">> ELSE <<>>)
                 \o (IF old_upper_bound > new_upper_bound THEN <<"UpperBound">> ELSE <<>>)
                 \o <<"Assign">>)
        ELSE EngineOutcome("Failure", after, <<>>)

\* Mutant of remove_value_from_domain: the Hole watchers are notified after
\* the watchers of a changed bound as well.
remove_value_from_domain_hole_always(e, integer_variable, removed_value, propagator_reason, cp_propagators) ==
    LET old_lower_bound == lower_bound(e.assignments, integer_variable)
        old_upper_bound == upper_bound(e.assignments, integer_variable)
        outcome == remove_value_from_domain_no_notify(e.assignments, integer_variable,
                       removed_value, propagator_reason)
        new_lower_bound == lower_bound(outcome.assignments, integer_variable)
        new_upper_bound == upper_bound(outcome.assignments, integer_variable)
        after == [e EXCEPT !.assignments = outcome.assignments]
        q1 == IF old_lower_bound < new_lower_bound
              THEN notify_lower_bound_subscribed_propagators(e.watch_list_cp,
                       integer_variable, cp_propagators, e.propagator_queue)
              ELSE IF old_upper_bound > new_upper_bound
              THEN notify_upper_bound_subscribed_propagators(e.watch_list_cp,
                       integer_variable, cp_propagators, e.propagator_queue)
              ELSE e.propagator_queue
        q2 == notify_hole_subscribed_propagators(e.watch_list_cp, integer_variable,
                                                 cp_propagators, q1)
    IN  IF outcome.outcome = "Failure" THEN EngineOutcome("Failure", after, <<>>)
        ELSE EngineOutcome("Success", [after EXCEPT !.propagator_queue = q2],
                 (IF old_lower_bound < new_lower_bound THEN <<"LowerBound">>
                  ELSE IF old_upper_bound > new_upper_bound THEN <<"UpperBound">>
                  ELSE <<>>) \o <<"Hole">>)

remove_value_from_domain(e, integer_variable, removed_value, propagator_reason, cp_propagators) ==
    LET old_lower_bound == lower_bound(e.assignments, integer_variable)
        old_upper_bound == upper_bound(e.assignments, integer_variable)
        outcome == remove_value_from_domain_no_notify(e.assignments, integer_variable,
                       removed_value, propagator_reason)
        new_lower_bound == lower_bound(outcome.assignments, integer_variable)
        new_upper_bound == upper_bound(outcome.assignments, integer_variable)
        after == [e EXCEPT !.assignments = outcome.assignments]
    IN  IF outcome.outcome = "Failure" THEN EngineOutcome("Failure", after, <<>>)
        ELSE IF old_lower_bound < new_lower_bound
        THEN EngineOutcome("Success",
                 [after EXCEPT !.propagator_queue =
                     notify_lower_bound_subscribed_propagators(e.watch_list_cp,
                         integer_variable, cp_propagators, @)],
                 <<"LowerBound">>)
        ELSE IF old_upper_bound > new_upper_bound
        THEN EngineOutcome("Success",
                 [after EXCEPT !.propagator_queue =
                     notify_upper_bound_subscribed_propagators(e.watch_list_cp,
                         integer_variable, cp_propagators, @)],
                 <<"UpperBound">>)
        ELSE EngineOutcome("Success",
                 [after EXCEPT !.propagator_queue =
                     notify_hole_subscribed_propagators(e.watch_list_cp,
                         integer_variable, cp_propagators, @)],
                 <<"Hole">>)

---------------------------------------------------------------------------
(* Affine views: y = scale * x + offset over an inner DomainId x           *)

AffineView(inner, scale, offset) == [inner |-> inner, scale |-> scale, offset |-> offset]

div_floor(lhs, rhs) ==
    LET d == TruncDiv(lhs, rhs)
        r == Rem(lhs, rhs)
    IN  IF (r > 0 /\ rhs < 0) \/ (r < 0 /\ rhs > 0) THEN d - 1 ELSE d

\* From a value of the view to a value of the inner variable, rounded "Up"
\* or "Down".
invert(y, value, rounding) ==
    LET inverted_translation == wrapping_add(value, 0 - y.offset)
    IN  IF rounding = "Up" THEN div_ceil(inverted_translation, y.scale)
        ELSE div_floor(inverted_translation, y.scale)

\* scale * value + offset.
AffineView_map(y, value) == wrapping_add(map(y.scale, value), y.offset)

\* lower_bound that reads the inner lower bound whatever the sign of the scale.
AffineView_lower_bound_unsigned(y, a) == AffineView_map(y, lower_bound(a, y.inner))

AffineView_lower_bound(y, a) ==
    IF y.scale < 0 THEN AffineView_map(y, upper_bound(a, y.inner))
    ELSE AffineView_map(y, lower_bound(a, y.inner))

AffineView_upper_bound(y, a) ==
    IF y.scale < 0 THEN AffineView_map(y, lower_bound(a, y.inner))
    ELSE AffineView_map(y, upper_bound(a, y.inner))

\* DomainId::set_lower_bound and set_upper_bound: the bound is tightened in
\* the store.
DomainId_set_lower_bound(x, a, value, reason) ==
    tighten_lower_bound_no_notify(a, x, value, reason)
DomainId_set_upper_bound(x, a, value, reason) ==
    tighten_upper_bound_no_notify(a, x, value, reason)

AffineView_set_lower_bound(y, a, value, reason) ==
    LET inverted == invert(y, value, "Up")
    IN  IF y.scale >= 0 THEN DomainId_set_lower_bound(y.inner, a, inverted, reason)
        ELSE DomainId_set_upper_bound(y.inner, a, inverted, reason)

AffineView_set_upper_bound(y, a, value, reason) ==
    LET inverted == invert(y, value, "Down")
    IN  IF y.scale >= 0 THEN DomainId_set_upper_bound(y.inner, a, inverted, reason)
        ELSE DomainId_set_lower_bound(y.inner, a, inverted, reason)

AffineView_lower_bound_predicate(y, bound) ==
    LET inverted_bound == invert(y, bound, "Up")
    IN  IF y.scale < 0 THEN UpperBoundPredicate(y.inner, inverted_bound)
        ELSE LowerBoundPredicate(y.inner, inverted_bound)

AffineView_upper_bound_predicate(y, bound) ==
    LET inverted_bound == invert(y, bound, "Down")
    IN  IF y.scale < 0 THEN LowerBoundPredicate(y.inner, inverted_bound)
        ELSE UpperBoundPredicate(y.inner, inverted_bound)

\* The two bound events.
BoundEvents == {"LowerBound", "UpperBound"}

\* EnumSet::symmetrical_difference.
symmetrical_difference(S, T) == (S \ T) \cup (T \ S)

\* DomainId::unpack_event: the event as the store raised it.
DomainId_unpack_event(event) == event

\* watch_all that hands the events to the inner variable as they are.
AffineView_watch_all_unswapped(y, events) == events

\* The events the inner variable is watched for when the view is watched for events.
AffineView_watch_all(y, events) ==
    LET intersection == events \cap BoundEvents
    IN  IF Cardinality(intersection) = 1 /\ y.scale < 0
        THEN symmetrical_difference(events, BoundEvents)
        ELSE events

AffineView_unpack_event(y, event) ==
    IF y.scale < 0
    THEN IF DomainId_unpack_event(event) = "LowerBound" THEN "UpperBound"
         ELSE IF DomainId_unpack_event(event) = "UpperBound" THEN "LowerBound"
         ELSE DomainId_unpack_event(event)
    ELSE DomainId_unpack_event(event)

\* Watchers::watch_all for propagator_id: it is put on the list of every event.
Watchers_watch_all(watch_list, propagator_id, x, events) ==
    [w \in DOMAIN watch_list \cup ({x} \X events) |->
        IF w \in {x} \X events
        THEN Append(watchers(watch_list, w[1], w[2]), propagator_id)
        ELSE watch_list[w]]

\* scaled that multiplies the scale and leaves the offset.
AffineView_scaled_scale_only(y, scale) == [y EXCEPT !.scale = map(y.scale, scale)]

AffineView_scaled(y, scale) ==
    [y EXCEPT !.scale = map(y.scale, scale), !.offset = map(y.offset, scale)]

AffineView_offset(y, offset) == [y EXCEPT !.offset = wrapping_add(y.offset, offset)]

---------------------------------------------------------------------------
(* LinearInequalityLiteralPropagator: Ax <= b <-> p for a 0/1 literal p     *)

LinearInequalityLiteralPropagator(linear_inequality, literal) ==
    [linear_inequality |-> linear_inequality, literal |-> literal]

\* `value as i32` on an i64: the low 32 bits, read as a signed number.
i64_as_i32(a) ==
    LET u == a[1] % Limb
        h == IF u >= Limb \div 2 THEN u - Limb ELSE u
    IN  (h * Limb) + a[2]

\* i32 `a - b` and `-a`: a panic in a debug build when the result is no i32,
\* the low 32 bits in a release build.
SubFits(a, b) == IF b >= 0 THEN a >= I32_MIN + b ELSE a <= I32_MAX + b
wrapping_sub(a, b) == IF SubFits(a, b) THEN a - b ELSE i64_as_i32(i64_sub(I64(a), I64(b)))
wrapping_neg(a) == IF a = I32_MIN THEN I32_MIN ELSE -a

Max(a, b) == IF a >= b THEN a ELSE b

\* The scaled view's initial bounds are mapped from the initial bounds of the
\* variable, the upper one for a negative scale.
lower_bound_initial(a, term) ==
    map(term[2], IF term[2] < 0 THEN a.ub[term[1]] ELSE a.lb[term[1]])
upper_bound_initial(a, term) ==
    map(term[2], IF term[2] < 0 THEN a.lb[term[1]] ELSE a.ub[term[1]])

RECURSIVE lb_initial_from(_, _, _)
lb_initial_from(a, lhs, i) ==
    IF i > Len(lhs) THEN I64(0)
    ELSE i64_add(I64(lower_bound_initial(a, lhs[i])), lb_initial_from(a, lhs, i + 1))

RECURSIVE ub_initial_from(_, _, _)
ub_initial_from(a, lhs, i) ==
    IF i > Len(lhs) THEN I64(0)
    ELSE i64_add(I64(upper_bound_initial(a, lhs[i])), ub_initial_from(a, lhs, i + 1))

lb_initial(a, lhs) == lb_initial_from(a, lhs, 1)
ub_initial(a, lhs) == ub_initial_from(a, lhs, 1)

RECURSIVE ub_from(_, _, _, _)
ub_from(a, lhs, i, trail_position) ==
    IF i > Len(lhs) THEN I64(0)
    ELSE i64_add(I64(scaled_upper_bound(a, lhs[i], trail_position)),
                 ub_from(a, lhs, i + 1, trail_position))

ub(a, lhs, trail_position) == ub_from(a, lhs, 1, trail_position)

\* "Some(true)" when the inequality holds whatever the variables take,
\* "Some(false)" when it cannot hold, "None" otherwise.
evaluate_at_trail_position(a, c, trail_position) ==
    LET ub_lhs == ub(a, c.lhs, trail_position)
        lb_lhs == lb(a, c.lhs, trail_position)
    IN  IF ~i64_lt(I64(c.rhs), ub_lhs) THEN "Some(true)"
        ELSE IF i64_lt(I64(c.rhs), lb_lhs) THEN "Some(false)"
        ELSE "None"

\* The steps of get_propagation_reason_constraint, in the order of the code.
big_m_steps(a, propagator) ==
    LET lhs == propagator.linear_inequality.lhs
        rhs == propagator.linear_inequality.rhs
        lb_lhs == i64_as_i32(lb_initial(a, lhs))
        ub_lhs == i64_as_i32(ub_initial(a, lhs))
        big_m_opt_1 == Max(wrapping_sub(ub_lhs, rhs), 0)
        negated == wrapping_neg(lb_lhs)
        shifted == wrapping_add(negated, rhs)
        big_m_opt_2 == Max(wrapping_add(shifted, 1), 0)
        big_m == Max(big_m_opt_1, big_m_opt_2)
    IN  [lb_lhs |-> lb_lhs, ub_lhs |-> ub_lhs, negated |-> negated, shifted |-> shifted,
         big_m |-> big_m,
         exact |-> i64_is_i32(lb_initial(a, lhs)) /\ i64_is_i32(ub_initial(a, lhs))]

\* Option 1, Ax + M*p <= b + M, the inequality returned.
get_propagation_reason_constraint(a, propagator) ==
    LET rhs == propagator.linear_inequality.rhs
        big_m == big_m_steps(a, propagator).big_m
    IN  LinearLessOrEqual(
            Append(propagator.linear_inequality.lhs, <<propagator.literal, big_m>>),
            wrapping_add(rhs, big_m))

\* A debug build leaves get_propagation_reason_constraint by a panic when a
\* product, a difference, a negation or a sum of it is no i32; the option
\* that is not returned is computed as well.
get_propagation_reason_constraint_panics(build, a, propagator) ==
    LET lhs == propagator.linear_inequality.lhs
        rhs == propagator.linear_inequality.rhs
        s == big_m_steps(a, propagator)
    IN  /\ build = "debug"
        /\ \/ \E i \in 1..Len(lhs) :
                 \/ ~MulFits(lhs[i][2], IF lhs[i][2] < 0 THEN a.ub[lhs[i][1]] ELSE a.lb[lhs[i][1]])
                 \/ ~MulFits(lhs[i][2], IF lhs[i][2] < 0 THEN a.lb[lhs[i][1]] ELSE a.ub[lhs[i][1]])
           \/ ~SubFits(s.ub_lhs, rhs)
           \/ s.lb_lhs = I32_MIN
           \/ ~AddFits(s.negated, rhs)
           \/ ~AddFits(s.shifted, 1)
           \/ ~AddFits(rhs, s.big_m)
           \/ \E i \in 1..Len(lhs) : lhs[i][2] = I32_MIN
           \/ rhs = I32_MIN

\* The predicate of lines 146-147 for a single term: x <= rhs / scale, the
\* quotient rounded towards zero.
single_term_predicate(c) ==
    UpperBoundPredicate(c.lhs[1][1], TruncDiv(c.rhs, c.lhs[1][2]))

\* `rhs / scale` panics in either build for i32::MIN / -1.
single_term_predicate_panics(c) == c.rhs = I32_MIN /\ c.lhs[1][2] = -1

is_domain_assigned(a, x) == lower_bound(a, x) = upper_bound(a, x)

\* post_predicate: the bound of the predicate is set, Failure when the
\* domain would become empty.
post_predicate(a, predicate, reason) ==
    IF predicate.kind = "lb"
    THEN tighten_lower_bound_no_notify(a, predicate.domain, predicate.value, reason)
    ELSE tighten_upper_bound_no_notify(a, predicate.domain, predicate.value, reason)

\* Lines 93-140: the literal is set from the value of the inequality.
literal_from_value(a, propagator, value, reason) ==
    IF value = "Some(true)"
    THEN tighten_lower_bound_no_notify(a, propagator.literal, 1, reason)
    ELSE IF value = "Some(false)"
    THEN tighten_upper_bound_no_notify(a, propagator.literal, 0, reason)
    ELSE StoreOutcome("Success", a)

\* Lines 143-144: a single term and an assigned literal.
posts_single_term(b, propagator) ==
    Len(propagator.linear_inequality.lhs) = 1 /\ is_domain_assigned(b, propagator.literal)

\* Lines 149-166: the predicate for a literal at 1, its negation otherwise.
posted_predicate(pred, lit_lb) == IF lit_lb = 1 THEN pred ELSE negate(pred)

\* What debug_propagate_from_scratch returned: the status, the store left,
\* the predicate posted and the value of the literal it was posted for.
PropagationResult(outcome, posted, literal) ==
    [status |-> IF outcome.outcome = "Failure" THEN "Err" ELSE "Ok",
     assignments |-> outcome.assignments, posted |-> posted, literal |-> literal]

post_single_term(b, posted, lit_lb, reason) ==
    PropagationResult(post_predicate(b, posted, reason), Some(posted), Some(lit_lb))

literal_after_match(first, propagator, reason) ==
    IF first.outcome = "Failure" \/ ~posts_single_term(first.assignments, propagator)
    THEN PropagationResult(first, None, None)
    ELSE post_single_term(first.assignments,
             posted_predicate(single_term_predicate(propagator.linear_inequality),
                              lower_bound(first.assignments, propagator.literal)),
             lower_bound(first.assignments, propagator.literal), reason)

\* debug_propagate_from_scratch: the literal is set from the value of the
\* inequality at the last trail position; then, for a single term and an
\* assigned literal, the predicate or its negation is posted.
literal_propagate_from_scratch(a, propagator) ==
    literal_after_match(
        literal_from_value(a, propagator,
            evaluate_at_trail_position(a, propagator.linear_inequality,
                                       usize_decrement(num_trail_entries(a))),
            get_propagation_reason_constraint(a, propagator)),
        propagator,
        get_propagation_reason_constraint(a, propagator))

\* The reason is built when the literal is set and when a predicate is
\* posted.
builds_reason(first, propagator, value) ==
    \/ value # "None"
    \/ first.outcome # "Failure" /\ posts_single_term(first.assignments, propagator)

evaluate_panics(build, a, lhs, trail_position) ==
    \E i \in 1..Len(lhs) :
        \/ map_panics(build, lhs[i][2], upper_source(a, lhs[i], trail_position))
        \/ map_panics(build, lhs[i][2], lower_source(a, lhs[i], trail_position))

\* debug_propagate_from_scratch is left by a panic: `num_trail_entries() - 1`
\* on an empty trail and a product that is no i32 in a debug build, the
\* quotient i32::MIN / -1 in either build.
literal_propagate_panics(build, a, propagator, value) ==
    \/ usize_decrement_panics(build, num_trail_entries(a))
    \/ evaluate_panics(build, a, propagator.linear_inequality.lhs,
                       usize_decrement(num_trail_entries(a)))
    \/ /\ builds_reason(literal_from_value(a, propagator, value, None), propagator, value)
       /\ get_propagation_reason_constraint_panics(build, a, propagator)
    \/ /\ Len(propagator.linear_inequality.lhs) = 1
       /\ single_term_predicate_panics(propagator.linear_inequality)
       /\ builds_reason(literal_from_value(a, propagator, value, None), propagator, "None")

---------------------------------------------------------------------------
(* RestartStrategy.  The sequence generator and the moving averages are     *)
(* boxed trait objects: a drawn value and the outcome of a comparison of    *)
(* averages are arguments here.                                             *)

\* RestartStrategy::new; first_value is the first value of the generator.
RestartStrategy_new(min_num_conflicts_before_first_restart, first_value) ==
    [sequence_generator |-> 1,
     number_of_conflicts_encountered_since_restart |-> 0,
     number_of_conflicts_until_restart |-> first_value,
     minimum_number_of_conflicts_before_first_restart |-> min_num_conflicts_before_first_restart,
     number_of_restarts |-> 0,
     number_of_blocked_restarts |-> 0]

\* should_restart without its test on the conflicts before the first restart.
should_restart_ignoring_minimum(rs, lbd_is_bad) ==
    IF rs.number_of_conflicts_encountered_since_restart
           < rs.number_of_conflicts_until_restart
    THEN FALSE
    ELSE lbd_is_bad

\* lbd_is_bad: long-term average LBD * lbd_coefficient <= short-term average.
should_restart(rs, lbd_is_bad) ==
    IF /\ rs.number_of_restarts = 0
       /\ rs.number_of_conflicts_encountered_since_restart
              < rs.minimum_number_of_conflicts_before_first_restart
    THEN FALSE
    ELSE IF rs.number_of_conflicts_encountered_since_restart
                < rs.number_of_conflicts_until_restart
    THEN FALSE
    ELSE lbd_is_bad

\* next_value is what sequence_generator.next() returns.
reset_values(rs, next_value) ==
    [rs EXCEPT !.sequence_generator = @ + 1,
               !.number_of_conflicts_until_restart = next_value,
               !.number_of_conflicts_encountered_since_restart = 0]

\* more_assigned: num_literals_on_trail > average * number_of_variables_coefficient.
notify_conflict(rs, more_assigned, next_value) ==
    LET counted == [rs EXCEPT !.number_of_conflicts_encountered_since_restart = @ + 1]
    IN  IF /\ \/ counted.number_of_restarts > 0
              \/ counted.number_of_conflicts_encountered_since_restart
                     >= counted.minimum_number_of_conflicts_before_first_restart
           /\ counted.number_of_conflicts_until_restart
                  <= counted.number_of_conflicts_encountered_since_restart
           /\ more_assigned
        THEN reset_values([counted EXCEPT !.number_of_blocked_restarts = @ + 1], next_value)
        ELSE counted

notify_restart(rs, next_value) ==
    reset_values([rs EXCEPT !.number_of_restarts = @ + 1], next_value)

---------------------------------------------------------------------------
(* Variable selection: MaxRegret                                           *)

\* SelectionContext::contains and is_integer_fixed.
contains(a, x, v) == v \in remaining(a, x)
is_integer_fixed(a, x) == lower_bound(a, x) = upper_bound(a, x)

\* find_extremum with Direction::Maximum: the variables that are not fixed
\* and whose value is greatest, as Some(variable); None if all are fixed.
\* Which of several variables of the greatest value is returned is left open.
find_extremum(variables, value, a) ==
    LET open == {i \in 1..Len(variables) : ~is_integer_fixed(a, variables[i])}
    IN  IF open = {} THEN {None}
        ELSE {Some(variables[i]) : i \in {j \in open : \A k \in open : value[k] <= value[j]}}

\* The regret of a variable taken as the distance between its bounds' first
\* two integers, removed values not skipped.
MaxRegret_value_of_bounds(a, variable) == 1

\* The closure of select_variable: second smallest value minus smallest.
MaxRegret_value(a, variable) ==
    LET smallest_value == lower_bound(a, variable)
        second_smallest_value ==
            SetMin({bound \in (smallest_value + 1)..upper_bound(a, variable) :
                       contains(a, variable, bound)})
    IN  second_smallest_value - smallest_value

\* The closure is only called for a variable that is not fixed.
MaxRegret_select_variable(variables, a) ==
    find_extremum(variables,
                  [i \in 1..Len(variables) |->
                      IF is_integer_fixed(a, variables[i]) THEN 0
                      ELSE MaxRegret_value(a, variables[i])],
                  a)

---------------------------------------------------------------------------
(* Calls on the engine: what was called and what it returned               *)

\* No call has been made yet.
NoCall == [op |-> "None"]

\* No restart strategy has been built.
NoRestartStrategy == [number_of_restarts |-> 0]

\* The watch lists of an engine no propagator has registered with.
NoWatchers == <<>>

---------------------------------------------------------------------------
(* The state                                                               *)

VARIABLES
    cut_in,     \* the arguments handed to apply_cut: [var, c1, c2]
    cut_out,    \* what apply_cut returned for cut_in ([kind |-> "None"] before the call)
    profile,    \* how the crate was built: "debug" or "release"
    assignments,            \* the domain store: initial bounds, trail, decision level
    propagators,            \* the propagator store, PropagatorId i at position i + 1
    propagator_queue,       \* the queue of propagators to run
    conflict_info,          \* StoredConflictInfo of the solver state
    is_completing_proof,    \* the flag of the conflict analysis context
    num_conflicts,          \* the conflicts met so far
    pc,                     \* where the solver stands: search, conflict analysis, ...
    conflicting_constraint, \* local of resolve_conflict
    trail_index,            \* local of resolve_conflict
    trail_entry,            \* local of resolve_conflict: the entry the scan stopped at
    backjump_level,         \* local of resolve_conflict: the level of the backjump scan
    resolve_result,         \* what resolve_conflict returned
    counters,               \* the statistics of the context
    fallback_reason,        \* the reason last logged by apply_fallback
    initialised,            \* what initialise_at_non_root returned in the last process
    process_result,         \* what the last process returned
    watch_list_cp,          \* the watch lists: <<DomainId, event>> -> sequence of PropagatorId
    reason_store,           \* the reason store: the decision level its boundary stands at
    call,                   \* the last call made on the engine: operation, arguments, result
    view,                   \* the affine view the calls on a view are made on
    restart_strategy,       \* the RestartStrategy of the solver
    enqueued_order          \* the <<PropagatorId, priority>> pairs waiting, in the order enqueued

vars == <<cut_in, cut_out, profile, assignments, propagators, propagator_queue, conflict_info,
          is_completing_proof, num_conflicts, pc, conflicting_constraint, trail_index,
          trail_entry, backjump_level, resolve_result, counters, fallback_reason,
          initialised, process_result, watch_list_cp, reason_store, call, view,
          restart_strategy, enqueued_order>>

\* The variables of the engine calls made on their own.
engine_vars == <<watch_list_cp, reason_store, call, view, enqueued_order>>

\* The values of the variables a specification does not use.
CutIdle ==
    /\ cut_in = [var |-> 0, c1 |-> LinearLessOrEqual(<<>>, 0), c2 |-> LinearLessOrEqual(<<>>, 0)]
    /\ cut_out = NoCut

EngineIdle ==
    /\ watch_list_cp = NoWatchers
    /\ reason_store = [level |-> 0]
    /\ call = NoCall
    /\ view = AffineView(0, 1, 0)
    /\ enqueued_order = <<>>

ResolverIdle ==
    /\ conflict_info = NoConflict
    /\ is_completing_proof = FALSE
    /\ conflicting_constraint = LinearLessOrEqual(<<>>, 0)
    /\ trail_index = 0
    /\ trail_entry = NoEntry
    /\ backjump_level = 0
    /\ resolve_result = NoResult
    /\ counters = NoCounters
    /\ num_conflicts = 0
    /\ fallback_reason = "None"
    /\ initialised = "None"
    /\ process_result = "None"

SolverIdle ==
    /\ profile = "release"
    /\ restart_strategy = NoRestartStrategy
    /\ pc = "idle"
    /\ assignments = NewAssignments([x \in {} |-> 0], [x \in {} |-> 0])
    /\ propagators = <<>>
    /\ propagator_queue = PropagatorQueue_new(NumPriorityLevels)
    /\ ResolverIdle
    /\ EngineIdle

---------------------------------------------------------------------------
(* The cut on its own: arguments drawn from bounded sets                   *)

NumVars == 3
MaxCoef == 2
MaxRhs == 1

Vars == 0..(NumVars - 1)

\* A coefficient vector (0: the variable does not occur) as an lhs, terms
\* in ascending or in descending order of DomainId.
RECURSIVE AscLhs(_, _)
AscLhs(f, S) ==
    IF S = {} THEN <<>>
    ELSE LET k == CHOOSE x \in S : \A y \in S : x <= y
         IN  (IF f[k] = 0 THEN <<>> ELSE <<(<<k, f[k]>>)>>) \o AscLhs(f, S \ {k})

RECURSIVE DescLhs(_, _)
DescLhs(f, S) ==
    IF S = {} THEN <<>>
    ELSE LET k == CHOOSE x \in S : \A y \in S : x >= y
         IN  (IF f[k] = 0 THEN <<>> ELSE <<(<<k, f[k]>>)>>) \o DescLhs(f, S \ {k})

SmallCoefs == (-MaxCoef)..MaxCoef
SmallRhs == (-MaxRhs)..MaxRhs

\* Values at the edge of i32, on all variables but the last.
WideVars == 0..(NumVars - 2)
WideCoefs == {-Big, -2, -1, 0, 1, 2, Big}
WideRhs == {-Big, -1, 0, 1, Big}

\* cut_in is a pair of well-formed inequalities over V that both contain
\* var, with coefficients of opposite sign; c1 lists its terms in ascending
\* and c2 in descending order of DomainId.
CutInputs(V, Coefs, Rhs) ==
    \E v \in V, f1 \in [V -> Coefs], f2 \in [V -> Coefs], r1 \in Rhs, r2 \in Rhs :
        /\ f1[v] # 0
        /\ f2[v] # 0
        /\ (f1[v] > 0) # (f2[v] > 0)
        /\ cut_in = [var |-> v,
                     c1 |-> LinearLessOrEqual(AscLhs(f1, V), r1),
                     c2 |-> LinearLessOrEqual(DescLhs(f2, V), r2)]

InitCut ==
    /\ CutInputs(WideVars, WideCoefs, WideRhs) \/ CutInputs(Vars, SmallCoefs, SmallRhs)
    /\ cut_out = NoCut
    /\ SolverIdle

\* One call of apply_cut(var, c1, c2); the build and the iteration order of
\* the HashMap are not fixed by the source.
ApplyCut ==
    /\ cut_out = NoCut
    /\ LET sum == cut_sum(cut_in.var, cut_in.c1, cut_in.c2)
       IN  \E build \in Builds, ord \in HashOrders(DOMAIN sum.new_lhs) :
               cut_out' = cut_finish(build, ord, sum)
    /\ UNCHANGED <<cut_in, profile, restart_strategy, assignments, propagators, propagator_queue, conflict_info,
                   is_completing_proof, num_conflicts, pc, conflicting_constraint,
                   trail_index, trail_entry, backjump_level, resolve_result, counters,
                   fallback_reason, initialised, process_result>>
    /\ UNCHANGED engine_vars

NextCut == ApplyCut

SpecCut == InitCut /\ [][NextCut]_vars

---------------------------------------------------------------------------
(* The solver: search, propagation, conflict analysis                      *)

MaxConflicts == 2
MaxDecisionLevel == 2

Lhs3(a, b, c) == AscLhs([k \in 0..2 |-> IF k = 0 THEN a ELSE IF k = 1 THEN b ELSE c], 0..2)

Linear(a, b, c, rhs) == Propagator(LinearLessOrEqual(Lhs3(a, b, c), rhs), TRUE, LinearPriority)
Opaque(a, b, c, rhs) == Propagator(LinearLessOrEqual(Lhs3(a, b, c), rhs), FALSE, LinearPriority)

Box(l, u) == [lb |-> [x \in 0..2 |-> l], ub |-> [x \in 0..2 |-> u]]

Problem(box, posted) == [lb |-> box.lb, ub |-> box.ub, propagators |-> posted]

\* The problems the solver is run on: three integer variables in one box and
\* two to four <= constraints, each with or without a linear explanation.
Problems ==
    { Problem(Box(0, 1), <<Linear(-1, -1, -1, -2), Linear(1, 1, 0, 1),
                           Linear(1, 0, 1, 1), Linear(0, 1, 1, 1)>>),
      Problem(Box(0, 2), <<Linear(-1, 1, -1, -2), Linear(1, -1, 1, 0)>>),
      Problem(Box(0, 2), <<Linear(-2, 2, -1, -1), Linear(0, 0, -2, 0),
                           Linear(-1, -1, 2, 2)>>),
      Problem(Box(-1, 1), <<Linear(2, 2, 1, 1), Linear(2, -2, 0, 2)>>),
      Problem(Box(-1, 1), <<Linear(-2, -2, -2, -2), Linear(0, -1, 2, 1),
                            Opaque(1, 0, 0, 2)>>),
      Problem(Box(-1, 1), <<Linear(1, -1, -1, -1), Linear(-2, -2, -2, 1),
                            Linear(2, 2, 2, -1)>>),
      Problem(Box(-1, 1), <<Linear(2, 2, 0, -1), Linear(1, -2, -2, 1),
                            Linear(-1, 1, -1, 1)>>),
      Problem(Box(-1, 1), <<Linear(2, -1, 1, 2), Linear(-2, -1, 0, -1),
                            Linear(1, 0, -2, 0)>>),
      Problem(Box(-1, 1), <<Linear(-2, -1, -2, 0), Opaque(-1, 2, 0, 0),
                            Opaque(-1, 1, 2, 0)>>),
      Problem(Box(-1, 1), <<Opaque(1, 0, -1, 1), Opaque(1, -1, 1, 0)>>),
      Problem(Box(-1, 1), <<Linear(0, 2, 2, 2), Opaque(1, -2, 1, -2),
                            Linear(-1, -1, 1, -2)>>),
      Problem(Box(-1, 1), <<Linear(0, 2, -2, 0), Opaque(-2, 0, 1, -1),
                            Linear(-2, -2, 0, 0)>>),
      Problem(Box(0, 2), <<Linear(1, -2, -1, -1), Opaque(-1, -2, 1, 0),
                           Linear(2, -2, -2, -2)>>),
      Problem(Box(-1, 1), <<Linear(1, -2, -1, -1), Linear(3, 1, -Big, -Big),
                            Linear(Big, -Big, 0, -Big)>>),
      Problem(Box(-1, 1), <<Linear(-3, 0, Big, -1), Linear(3, -3, -1, 1),
                            Linear(0, 2, 3, -1)>>),
      Problem(Box(-1, 1), <<Linear(2, -Big, -Big, -1), Linear(-2, 0, 3, 0),
                            Linear(2, Big, -Big, Big)>>),
      Problem(Box(-1, 1), <<Linear(-1, -1, -1, 1), Linear(3, -1, -3, Big),
                            Linear(-3, Big, 2, 1)>>),
      Problem(Box(-1, 1), <<Linear(-2, -2, 2, 1), Linear(2, 0, 2, -2)>>),
      Problem(Box(0, 2), <<Linear(-1, -1, 1, -2), Linear(2, -1, 1, 0)>>),
      Problem(Box(0, 2), <<Linear(-1, 1, 0, 1), Linear(0, -2, 1, -2),
                           Linear(-2, 0, -1, -2)>>),
      Problem(Box(-1, 1), <<Opaque(2, -1, -2, 0), Linear(-1, 1, 2, 1),
                            Linear(0, -2, -1, -1)>>),
      Problem(Box(-1, 1), <<Linear(2, -1, 1, -2), Opaque(2, 0, -2, 0),
                            Linear(-1, 1, -1, 0)>>),
      Problem(Box(0, 2), <<Opaque(0, 1, 1, -1), Linear(1, 0, 2, 2),
                           Opaque(-2, 0, 0, -1)>>),
      Problem(Box(0, 2), <<Linear(3, Big, -Big, Big), Linear(-Big, Big, 3, Big)>>),
      Problem(Box(-1, 1), <<Linear(-Big, -Big, -Big, 0), Linear(-Big, -Big, Big, 0)>>) }

\* The resolver's frame as one record, and its write-back.
Machine ==
    [pc |-> pc, conflicting_constraint |-> conflicting_constraint,
     trail_index |-> trail_index, trail_entry |-> trail_entry,
     backjump_level |-> backjump_level, resolve_result |-> resolve_result,
     counters |-> counters, fallback_reason |-> fallback_reason]

SetMachine(m) ==
    /\ pc' = m.pc
    /\ conflicting_constraint' = m.conflicting_constraint
    /\ trail_index' = m.trail_index
    /\ trail_entry' = m.trail_entry
    /\ backjump_level' = m.backjump_level
    /\ resolve_result' = m.resolve_result
    /\ counters' = m.counters
    /\ fallback_reason' = m.fallback_reason

Context ==
    [assignments |-> assignments, propagators |-> propagators,
     propagator_queue |-> propagator_queue, initialised |-> "None",
     process_result |-> "None"]

SetContext(ctx) ==
    /\ assignments' = ctx.assignments
    /\ propagators' = ctx.propagators
    /\ propagator_queue' = ctx.propagator_queue
    /\ initialised' = ctx.initialised
    /\ process_result' = ctx.process_result

Init ==
    /\ CutIdle
    /\ ResolverIdle
    /\ EngineIdle
    /\ profile \in Builds
    /\ restart_strategy = NoRestartStrategy
    /\ pc = "search"
    /\ \E problem \in Problems :
        /\ assignments = NewAssignments(problem.lb, problem.ub)
        /\ propagators = problem.propagators
        /\ propagator_queue = enqueue_all(PropagatorQueue_new(NumPriorityLevels),
                                          problem.propagators, 0)

\* How a propagator reports that its inequality cannot hold.
ConflictInfos(propagator, id) ==
    IF propagator.linear THEN {PropagatorConflict(id)}
    ELSE {PropagatorConflict(id), EmptyDomain}

\* The engine pops one propagator and runs it.
Propagate ==
    /\ pc = "search"
    /\ ~queue_is_empty(propagator_queue)
    /\ LET id == queue_front(propagator_queue)
           popped == queue_pop(propagator_queue)
           propagator == get_propagator(propagators, id)
       IN  IF propagator_conflicts(assignments, propagator.constraint)
           THEN /\ \E info \in ConflictInfos(propagator, id) : conflict_info' = info
                /\ propagator_queue' = popped
                /\ is_completing_proof' = (assignments.decision_level = 0)
                /\ num_conflicts' = num_conflicts + 1
                /\ pc' = "conflict"
                /\ UNCHANGED assignments
           ELSE LET ctx == propagate_from(
                               [assignments |-> assignments, propagator_queue |-> popped],
                               propagators, propagator.constraint,
                               exact_slack(assignments, propagator.constraint), id, 1)
                IN  /\ assignments' = ctx.assignments
                    /\ propagator_queue' = ctx.propagator_queue
                    /\ UNCHANGED <<conflict_info, is_completing_proof, num_conflicts, pc>>
    /\ initialised' = "None"
    /\ process_result' = "None"
    /\ UNCHANGED <<cut_in, cut_out, profile, restart_strategy, propagators, conflicting_constraint, trail_index,
                   trail_entry, backjump_level, resolve_result, counters, fallback_reason>>
    /\ UNCHANGED engine_vars

\* At a fixpoint the driver decides a bound of a variable that is not fixed.
Decide ==
    /\ pc = "search"
    /\ queue_is_empty(propagator_queue)
    /\ num_conflicts < MaxConflicts
    /\ assignments.decision_level < MaxDecisionLevel
    /\ \E x \in DOMAIN assignments.lb :
        \E v \in lower_bound(assignments, x)..(upper_bound(assignments, x) - 1) :
            \E predicate \in {UpperBoundPredicate(x, v), LowerBoundPredicate(x, v + 1)} :
                /\ assignments' = post([assignments EXCEPT !.decision_level = @ + 1],
                                       predicate, None)
                /\ propagator_queue' = notify(propagator_queue, propagators, predicate)
    /\ initialised' = "None"
    /\ process_result' = "None"
    /\ UNCHANGED <<cut_in, cut_out, profile, restart_strategy, propagators, conflict_info, is_completing_proof,
                   num_conflicts, pc, conflicting_constraint, trail_index, trail_entry,
                   backjump_level, resolve_result, counters, fallback_reason>>
    /\ UNCHANGED engine_vars

ResolverUnchanged ==
    UNCHANGED <<cut_in, cut_out, profile, restart_strategy, assignments, propagators, propagator_queue,
                conflict_info, is_completing_proof, num_conflicts, initialised,
                process_result, watch_list_cp, reason_store, call, view, enqueued_order>>

\* resolve_conflict is entered.
ResolveStart ==
    /\ pc = "conflict"
    /\ SetMachine(resolve_start(assignments, propagators, conflict_info, is_completing_proof,
                                [Machine EXCEPT !.resolve_result = NoResult,
                                                !.fallback_reason = "None"]))
    /\ ResolverUnchanged

ScanStep ==
    /\ pc = "scan"
    /\ SetMachine(scan_step(profile, assignments, Machine))
    /\ ResolverUnchanged

CutStep ==
    /\ pc = "cut"
    /\ LET explained == explain_step(assignments, propagators, Machine)
       IN  IF explained.done THEN SetMachine(explained.m)
           ELSE LET reason == get_propagator(propagators, trail_entry.reason.v)
                    sum == cut_sum(trail_entry.predicate.domain, conflicting_constraint,
                                   linear_inequality_explanation(reason).v)
                IN  \E ord \in HashOrders(DOMAIN sum.new_lhs) :
                        SetMachine(adopt_cut(assignments, Machine,
                                             cut_finish(profile, ord, sum)))
    /\ ResolverUnchanged

BackjumpStep ==
    /\ pc = "backjump"
    /\ SetMachine(backjump_step(profile, assignments, Machine))
    /\ ResolverUnchanged

\* The solver hands the result to process and goes on, or stops on Err.
Process ==
    /\ pc = "returned"
    /\ LET ctx == process(Context, resolve_result)
       IN  /\ SetContext(ctx)
           /\ pc' = IF ctx.process_result = "Ok" THEN "search" ELSE "unsat"
    /\ conflict_info' = NoConflict
    /\ is_completing_proof' = FALSE
    /\ UNCHANGED <<cut_in, cut_out, profile, restart_strategy, num_conflicts, conflicting_constraint, trail_index,
                   trail_entry, backjump_level, resolve_result, counters, fallback_reason>>
    /\ UNCHANGED engine_vars

Next ==
    \/ Propagate
    \/ Decide
    \/ ResolveStart
    \/ ScanStep
    \/ CutStep
    \/ BackjumpStep
    \/ Process

Spec == Init /\ [][Next]_vars

\* resolve_conflict is straight-line code: once entered it runs on until it
\* returns or panics. The loop is enabled exactly while the resolver stands
\* in it, so its weak fairness is written with that position.
ResolveLoop == ScanStep \/ CutStep \/ BackjumpStep

SpecFair ==
    /\ Spec
    /\ WF_vars(ResolveStart)
    /\ ([]<>(pc \notin {"scan", "cut", "backjump"}) \/ []<><<ResolveLoop>>_vars)

---------------------------------------------------------------------------
(* The search on its own: satisfy with the IntSat resolver                 *)

MaxSolveConflicts == 6

\* x, y in [0, 3] with 3x + 4y <= -2 and -y <= -1.
SimpleInfeasible ==
    [lb |-> [x \in 0..1 |-> 0], ub |-> [x \in 0..1 |-> 3],
     propagators |->
        <<Propagator(LinearLessOrEqual(<<<<0, 3>>, <<1, 4>>>>, -2), TRUE, LinearPriority),
          Propagator(LinearLessOrEqual(<<<<1, -1>>>>, -1), TRUE, LinearPriority)>>]

\* x, y in [-10, 1], z in [-10, 3] with -x - y - z <= -2, x + y <= 1,
\* x + z <= 1 and y + z <= 1.
PaperInfeasible ==
    [lb |-> [x \in 0..2 |-> -10], ub |-> [x \in 0..2 |-> IF x = 2 THEN 3 ELSE 1],
     propagators |-> <<Linear(-1, -1, -1, -2), Linear(1, 1, 0, 1),
                       Linear(1, 0, 1, 1), Linear(0, 1, 1, 1)>>]

InfeasibleExamples == {SimpleInfeasible, PaperInfeasible}

SolveProblems == InfeasibleExamples \cup Problems

InitSolve ==
    /\ CutIdle
    /\ ResolverIdle
    /\ EngineIdle
    /\ profile \in Builds
    /\ restart_strategy = NoRestartStrategy
    /\ pc = "search"
    /\ \E problem \in SolveProblems :
        /\ assignments = NewAssignments(problem.lb, problem.ub)
        /\ propagators = problem.propagators
        /\ propagator_queue = enqueue_all(PropagatorQueue_new(NumPriorityLevels),
                                          problem.propagators, 0)

SolveUnchanged ==
    UNCHANGED <<cut_in, cut_out, profile, restart_strategy, conflicting_constraint, trail_index, trail_entry,
                backjump_level, resolve_result, counters, fallback_reason,
                watch_list_cp, reason_store, call, view, enqueued_order>>

\* The next propagator of the queue runs; a failure at the root level ends
\* the search, one above it goes to the resolver.
SolvePropagate ==
    /\ pc = "search"
    /\ ~queue_is_empty(propagator_queue)
    /\ LET id == queue_front(propagator_queue)
           popped == queue_pop(propagator_queue)
           propagator == get_propagator(propagators, id)
       IN  IF propagator_fails(assignments, propagator)
           THEN /\ \E info \in ConflictInfos(propagator, id) : conflict_info' = info
                /\ propagator_queue' = popped
                /\ num_conflicts' = num_conflicts + 1
                /\ pc' = IF assignments.decision_level = 0 THEN "unsat" ELSE "conflict"
                /\ UNCHANGED assignments
           ELSE LET ctx == propagator_run([assignments |-> assignments,
                                           propagator_queue |-> popped], propagators, id)
                IN  /\ assignments' = ctx.assignments
                    /\ propagator_queue' = ctx.propagator_queue
                    /\ UNCHANGED <<conflict_info, num_conflicts, pc>>
    /\ initialised' = "None"
    /\ process_result' = "None"
    /\ UNCHANGED <<propagators, is_completing_proof>>
    /\ SolveUnchanged

AllFixed == \A x \in DOMAIN assignments.lb : lower_bound(assignments, x) = upper_bound(assignments, x)

\* At a fixpoint the brancher splits the domain of a variable that is not
\* fixed: any variable, any value, either side.
SolveDecide ==
    /\ pc = "search"
    /\ queue_is_empty(propagator_queue)
    /\ num_conflicts < MaxSolveConflicts
    /\ \E x \in DOMAIN assignments.lb :
        \E v \in lower_bound(assignments, x)..(upper_bound(assignments, x) - 1) :
            \E predicate \in {UpperBoundPredicate(x, v), LowerBoundPredicate(x, v + 1)} :
                /\ assignments' = post([assignments EXCEPT !.decision_level = @ + 1],
                                       predicate, None)
                /\ propagator_queue' = notify(propagator_queue, propagators, predicate)
    /\ UNCHANGED <<propagators, conflict_info, is_completing_proof, num_conflicts, pc,
                   initialised, process_result>>
    /\ SolveUnchanged

\* At a fixpoint with every variable fixed satisfy returns Satisfiable.
SolveFinish ==
    /\ pc = "search"
    /\ queue_is_empty(propagator_queue)
    /\ AllFixed
    /\ pc' = "sat"
    /\ UNCHANGED <<assignments, propagators, propagator_queue, conflict_info,
                   is_completing_proof, num_conflicts, initialised, process_result>>
    /\ SolveUnchanged

\* The result of resolve_conflict is processed; Err ends the search.
SolveProcess ==
    /\ pc = "returned"
    /\ LET ctx == solve_process(Context, resolve_result)
       IN  /\ SetContext(ctx)
           /\ pc' = IF ctx.process_result = "Ok" THEN "search" ELSE "unsat"
    /\ conflict_info' = NoConflict
    /\ UNCHANGED <<cut_in, cut_out, profile, restart_strategy, is_completing_proof, num_conflicts,
                   conflicting_constraint, trail_index, trail_entry, backjump_level,
                   resolve_result, counters, fallback_reason>>
    /\ UNCHANGED engine_vars

NextSolve ==
    \/ SolvePropagate
    \/ SolveDecide
    \/ SolveFinish
    \/ ResolveStart
    \/ ScanStep
    \/ CutStep
    \/ BackjumpStep
    \/ SolveProcess

SpecSolve == InitSolve /\ [][NextSolve]_vars

\* satisfy is a sequential loop: it runs on until it returns or panics. A
\* step is possible exactly while SolveRunning holds, so the weak fairness
\* of the loop is written with it.
SolveRunning ==
    \/ pc \in {"conflict", "scan", "cut", "backjump", "returned"}
    \/ /\ pc = "search"
       /\ \/ ~queue_is_empty(propagator_queue)
          \/ AllFixed
          \/ num_conflicts < MaxSolveConflicts

SpecSolveFair ==
    /\ SpecSolve
    /\ WF_vars(SolveFinish)
    /\ ([]<>(~SolveRunning) \/ []<><<NextSolve>>_vars)

---------------------------------------------------------------------------
(* The propagator queue on its own: enqueue_propagator, pop and clear      *)

NumPropagatorIds == 3
PropagatorIds == 0..(NumPropagatorIds - 1)
Priorities == 0..(NumPriorityLevels - 1)

\* enqueued_order without the pair of propagator_id.
RECURSIVE without(_, _)
without(order, propagator_id) ==
    IF order = <<>> THEN <<>>
    ELSE IF Head(order)[1] = propagator_id THEN without(Tail(order), propagator_id)
    ELSE <<Head(order)>> \o without(Tail(order), propagator_id)

\* The priority propagator_id was enqueued with (the number of levels if it was not).
priority_of(order, propagator_id) ==
    IF \E i \in 1..Len(order) : order[i][1] = propagator_id
    THEN order[CHOOSE i \in 1..Len(order) : order[i][1] = propagator_id][2]
    ELSE NumPriorityLevels

InitQueue ==
    /\ CutIdle
    /\ SolverIdle

QueueUnchanged ==
    UNCHANGED <<cut_in, cut_out, profile, restart_strategy, assignments, propagators, conflict_info,
                is_completing_proof, num_conflicts, pc, conflicting_constraint, trail_index,
                trail_entry, backjump_level, resolve_result, counters, fallback_reason,
                initialised, process_result, watch_list_cp, reason_store, view>>

Enqueue ==
    \E propagator_id \in PropagatorIds, priority \in Priorities :
        /\ propagator_queue' = enqueue_propagator(propagator_queue, propagator_id, priority)
        /\ enqueued_order' =
               IF \E i \in 1..Len(enqueued_order) : enqueued_order[i][1] = propagator_id
               THEN enqueued_order
               ELSE Append(enqueued_order, <<propagator_id, priority>>)
        /\ call' = [op |-> "enqueue_propagator", id |-> propagator_id, priority |-> priority]
        /\ QueueUnchanged

Pop ==
    /\ ~queue_is_empty(propagator_queue)
    /\ propagator_queue' = queue_pop(propagator_queue)
    /\ enqueued_order' = without(enqueued_order, queue_front(propagator_queue))
    /\ call' = [op |-> "pop", id |-> queue_front(propagator_queue),
                priority |-> priority_of(enqueued_order, queue_front(propagator_queue))]
    /\ QueueUnchanged

Clear ==
    /\ propagator_queue' = queue_clear(propagator_queue)
    /\ enqueued_order' = <<>>
    /\ call' = [op |-> "clear", dropped |-> {enqueued_order[i][1] : i \in 1..Len(enqueued_order)}]
    /\ QueueUnchanged

NextQueue == Enqueue \/ Pop \/ Clear

SpecQueue == InitQueue /\ [][NextQueue]_vars

---------------------------------------------------------------------------
(* The engine on its own: domain operations, decision levels, backtrack    *)

NumDomains == 1
MaxValue == 2
MaxEngineLevel == 1
DomainIds == 0..(NumDomains - 1)

\* Arguments from one below the initial domain to one above it.
Values == (0 - 1)..(MaxValue + 1)

\* Three propagators that only take part through their priorities.
EnginePropagators ==
    <<Propagator(LinearLessOrEqual(<<>>, 0), FALSE, 2),
      Propagator(LinearLessOrEqual(<<>>, 0), FALSE, 1),
      Propagator(LinearLessOrEqual(<<>>, 0), FALSE, 3)>>

\* The registrations the engine is run with: every variable watched by one
\* propagator for its bounds, one for Assign and one for Hole; or only
\* variable 0 watched, by two propagators for every event.
WatchLists ==
    {[w \in DomainIds \X Events |->
         IF w[2] \in {"LowerBound", "UpperBound"} THEN <<0>>
         ELSE IF w[2] = "Assign" THEN <<1>> ELSE <<2>>],
     [w \in {0} \X Events |-> <<2, 0>>]}

Reasons == {None}

InitEngine ==
    /\ CutIdle
    /\ ResolverIdle
    /\ profile = "release"
    /\ restart_strategy = NoRestartStrategy
    /\ pc = "idle"
    /\ assignments = NewAssignments([x \in DomainIds |-> 0], [x \in DomainIds |-> MaxValue])
    /\ propagators = EnginePropagators
    /\ propagator_queue = PropagatorQueue_new(NumPriorityLevels)
    /\ watch_list_cp \in WatchLists
    /\ reason_store = [level |-> 0]
    /\ call = NoCall
    /\ view = AffineView(0, 1, 0)
    /\ enqueued_order = <<>>

EngineUnchanged ==
    UNCHANGED <<cut_in, cut_out, profile, restart_strategy, propagators, conflict_info, is_completing_proof,
                num_conflicts, pc, conflicting_constraint, trail_index, trail_entry,
                backjump_level, resolve_result, counters, fallback_reason, initialised,
                process_result, watch_list_cp, view, enqueued_order>>

TheEngine == Engine(assignments, watch_list_cp, propagator_queue)

\* The call of op on x with v has returned r.
EngineReturned(op, x, v, r) ==
    /\ assignments' = r.engine.assignments
    /\ propagator_queue' = r.engine.propagator_queue
    /\ call' = [op |-> op, x |-> x, v |-> v, outcome |-> r.outcome, notified |-> r.notified]
    /\ UNCHANGED reason_store
    /\ EngineUnchanged

TightenLowerBound ==
    \E x \in DomainIds, v \in Values, reason \in Reasons :
        EngineReturned("tighten_lower_bound", x, v,
                 tighten_lower_bound(TheEngine, x, v, reason, propagators))

TightenUpperBound ==
    \E x \in DomainIds, v \in Values, reason \in Reasons :
        EngineReturned("tighten_upper_bound", x, v,
                 tighten_upper_bound(TheEngine, x, v, reason, propagators))

MakeAssignment ==
    \E x \in DomainIds, v \in Values, reason \in Reasons :
        EngineReturned("make_assignment", x, v,
                 make_assignment(TheEngine, x, v, reason, propagators))

RemoveValueFromDomain ==
    \E x \in DomainIds, v \in Values, reason \in Reasons :
        EngineReturned("remove_value_from_domain", x, v,
                 remove_value_from_domain(TheEngine, x, v, reason, propagators))

\* A new decision level is opened; the reason store marks its boundary.
IncreaseDecisionLevel ==
    /\ get_decision_level(assignments) < MaxEngineLevel
    /\ assignments' = [assignments EXCEPT !.decision_level = @ + 1]
    /\ reason_store' = [level |-> get_decision_level(assignments) + 1]
    /\ call' = [op |-> "increase_decision_level"]
    /\ UNCHANGED propagator_queue
    /\ EngineUnchanged

Backtrack ==
    \E backtrack_level \in 0..(get_decision_level(assignments) - 1) :
        LET after == backtrack(TheEngine, backtrack_level)
        IN  /\ assignments' = after.assignments
            /\ propagator_queue' = after.propagator_queue
            /\ call' = [op |-> "backtrack", level |-> backtrack_level,
                        old_enqueued |-> propagator_queue.present_propagators,
                        old_trail |-> Len(assignments.trail)]
            /\ UNCHANGED reason_store
            /\ EngineUnchanged

NextEngine ==
    \/ TightenLowerBound
    \/ TightenUpperBound
    \/ MakeAssignment
    \/ RemoveValueFromDomain
    \/ IncreaseDecisionLevel
    \/ Backtrack
    \/ Pop

SpecEngine == InitEngine /\ [][NextEngine]_vars

---------------------------------------------------------------------------
(* Affine views on their own: one inner variable with the bounds Init has   *)
(* drawn, one view on it, one call made on the view                        *)

MaxScale == 2
MaxOffset == 1
MaxInner == 3

\* The views: a scale other than 0 and an offset.
Views ==
    {AffineView(0, scale, offset) :
        scale \in ((0 - MaxScale)..MaxScale) \ {0}, offset \in (0 - MaxOffset)..MaxOffset}

\* The values a bound of the view is asked for: those the view can take and
\* one beyond at either end.
ViewValues == (0 - (MaxScale * MaxInner + MaxOffset + 1))..(MaxScale * MaxInner + MaxOffset + 1)

InitView ==
    /\ CutIdle
    /\ ResolverIdle
    /\ profile = "release"
    /\ restart_strategy = NoRestartStrategy
    /\ pc = "idle"
    /\ \E l \in (0 - MaxInner)..MaxInner, u \in (0 - MaxInner)..MaxInner :
           /\ l <= u
           /\ assignments = NewAssignments([x \in {0} |-> l], [x \in {0} |-> u])
    /\ propagators = <<>>
    /\ propagator_queue = PropagatorQueue_new(NumPriorityLevels)
    /\ watch_list_cp = NoWatchers
    /\ reason_store = [level |-> 0]
    /\ call = NoCall
    /\ view \in Views
    /\ enqueued_order = <<>>

ViewUnchanged ==
    UNCHANGED <<cut_in, cut_out, profile, restart_strategy, propagators, propagator_queue, conflict_info,
                is_completing_proof, num_conflicts, pc, conflicting_constraint, trail_index,
                trail_entry, backjump_level, resolve_result, counters, fallback_reason,
                initialised, process_result, reason_store, enqueued_order>>

SetLowerBound ==
    \E value \in ViewValues :
        LET r == AffineView_set_lower_bound(view, assignments, value, None)
        IN  /\ call = NoCall
            /\ assignments' = r.assignments
            /\ call' = [op |-> "set_lower_bound", v |-> value, outcome |-> r.outcome]
            /\ UNCHANGED <<view, watch_list_cp>>
            /\ ViewUnchanged

SetUpperBound ==
    \E value \in ViewValues :
        LET r == AffineView_set_upper_bound(view, assignments, value, None)
        IN  /\ call = NoCall
            /\ assignments' = r.assignments
            /\ call' = [op |-> "set_upper_bound", v |-> value, outcome |-> r.outcome]
            /\ UNCHANGED <<view, watch_list_cp>>
            /\ ViewUnchanged

LowerBoundPredicateOf ==
    \E bound \in ViewValues :
        /\ call = NoCall
        /\ call' = [op |-> "lower_bound_predicate", v |-> bound,
                    predicate |-> AffineView_lower_bound_predicate(view, bound)]
        /\ UNCHANGED <<assignments, view, watch_list_cp>>
        /\ ViewUnchanged

UpperBoundPredicateOf ==
    \E bound \in ViewValues :
        /\ call = NoCall
        /\ call' = [op |-> "upper_bound_predicate", v |-> bound,
                    predicate |-> AffineView_upper_bound_predicate(view, bound)]
        /\ UNCHANGED <<assignments, view, watch_list_cp>>
        /\ ViewUnchanged

\* A propagator registers through the view for a set of events.
WatchAll ==
    \E events \in SUBSET Events :
        /\ call = NoCall
        /\ watch_list_cp' = Watchers_watch_all(watch_list_cp, 0, view.inner,
                                               AffineView_watch_all(view, events))
        /\ call' = [op |-> "watch_all", events |-> events]
        /\ UNCHANGED <<assignments, view>>
        /\ ViewUnchanged

Scaled ==
    \E scale \in (0 - MaxScale)..MaxScale :
        /\ call = NoCall
        /\ view' = AffineView_scaled(view, scale)
        /\ call' = [op |-> "scaled", k |-> scale]
        /\ UNCHANGED <<assignments, watch_list_cp>>
        /\ ViewUnchanged

Offset ==
    \E offset \in (0 - MaxOffset)..MaxOffset :
        /\ call = NoCall
        /\ view' = AffineView_offset(view, offset)
        /\ call' = [op |-> "offset", k |-> offset]
        /\ UNCHANGED <<assignments, watch_list_cp>>
        /\ ViewUnchanged

NextView ==
    \/ SetLowerBound
    \/ SetUpperBound
    \/ LowerBoundPredicateOf
    \/ UpperBoundPredicateOf
    \/ WatchAll
    \/ Scaled
    \/ Offset

SpecView == InitView /\ [][NextView]_vars

---------------------------------------------------------------------------
(* The tests on an inequality on their own: overflows, is_conflicting and   *)
(* is_propagating called on an inequality and a store drawn by Init        *)

NumEvalVars == 2
EvalVars == 0..(NumEvalVars - 1)
\* Wide bounds go with small coefficients and wide coefficients with small
\* bounds.
WideEvalValues == {-Big, 0, 1, Big}
SmallEvalValues == {-1, 0, 1, 2}
WideEvalCoefs == {-Big, -2, 0, 1, 2, Big}
SmallEvalCoefs == {-2, -1, 0, 1, 2}
EvalRhs == {-1, 0, Big}

\* The position of the last trail entry, 0 on an empty trail.
last_trail_position(a) == IF num_trail_entries(a) = 0 THEN 0 ELSE num_trail_entries(a) - 1

\* Every variable has lb <= ub; the trail is empty or holds one decision
\* that raises the lower bound of variable 0 within its domain.
InitEval ==
    /\ CutIdle
    /\ conflict_info = NoConflict
    /\ is_completing_proof = FALSE
    /\ trail_entry = NoEntry
    /\ backjump_level = 0
    /\ resolve_result = NoResult
    /\ counters = NoCounters
    /\ num_conflicts = 0
    /\ fallback_reason = "None"
    /\ initialised = "None"
    /\ process_result = "None"
    /\ profile \in Builds
    /\ restart_strategy = NoRestartStrategy
    /\ pc = "idle"
    /\ \E wide \in BOOLEAN :
        LET EvalValues == IF wide THEN WideEvalValues ELSE SmallEvalValues
            EvalCoefs == IF wide THEN SmallEvalCoefs ELSE WideEvalCoefs
        IN
        \E l \in [EvalVars -> EvalValues], u \in [EvalVars -> EvalValues],
           f \in [EvalVars -> EvalCoefs], rhs \in EvalRhs :
           /\ conflicting_constraint = LinearLessOrEqual(AscLhs(f, EvalVars), rhs)
           /\ \A x \in EvalVars : l[x] <= u[x]
           /\ \/ assignments = NewAssignments(l, u)
              \/ \E v \in EvalValues :
                     /\ l[0] < v
                     /\ v <= u[0]
                     /\ assignments = [NewAssignments(l, u) EXCEPT
                                          !.trail = <<TrailEntry(LowerBoundPredicate(0, v), None, 1)>>,
                                          !.decision_level = 1]
    /\ propagators = <<>>
    /\ propagator_queue = PropagatorQueue_new(NumPriorityLevels)
    /\ trail_index = last_trail_position(assignments)
    /\ EngineIdle

\* The resolver's tests at lines 351-360 of resolve_conflict, on the drawn
\* inequality at trail position trail_index: overflows first, then
\* is_propagating and is_conflicting, which a debug build leaves by a panic
\* when a product they compute is no i32 (unfit), where a release build
\* wraps.
Evaluate ==
    /\ call = NoCall
    /\ LET c == conflicting_constraint
           t == trail_index
       IN  call' = [op |-> "evaluate",
                    overflows |-> overflows(assignments, c, t),
                    is_propagating |-> is_propagating(assignments, c, t),
                    is_conflicting |-> is_conflicting(assignments, c, t),
                    unfit |-> is_propagating_panics("debug", assignments, c, t),
                    panicked |-> is_propagating_panics(profile, assignments, c, t)]
    /\ UNCHANGED <<cut_in, cut_out, profile, restart_strategy, assignments, propagators, propagator_queue,
                   conflict_info, is_completing_proof, num_conflicts, pc,
                   conflicting_constraint, trail_index, trail_entry, backjump_level,
                   resolve_result, counters, fallback_reason, initialised, process_result,
                   watch_list_cp, reason_store, view, enqueued_order>>

NextEval == Evaluate

SpecEval == InitEval /\ [][NextEval]_vars

---------------------------------------------------------------------------
(* The literal propagator on its own: an inequality of one or two terms,    *)
(* its literal and a store drawn by Init; one call made on the propagator   *)

LiteralValues == {-1, 0, 2}
LiteralCoefs == {-Big, -2, -1, 0, 1, 2, Big}
LiteralRhs == {-3, -1, 0, 1, 3, Big}

\* The DomainId of the literal, after the variables of the inequality.
LiteralId == NumEvalVars

InitLiteral ==
    /\ CutIdle
    /\ conflict_info = NoConflict
    /\ is_completing_proof = FALSE
    /\ trail_entry = NoEntry
    /\ backjump_level = 0
    /\ resolve_result = NoResult
    /\ counters = NoCounters
    /\ num_conflicts = 0
    /\ fallback_reason = "None"
    /\ initialised = "None"
    /\ process_result = "None"
    /\ profile \in Builds
    /\ restart_strategy = NoRestartStrategy
    /\ pc = "idle"
    /\ conflicting_constraint = LinearLessOrEqual(<<>>, 0)
    /\ trail_index = 0
    /\ \E l \in [EvalVars -> LiteralValues], u \in [EvalVars -> LiteralValues],
          f \in [EvalVars -> LiteralCoefs], rhs \in LiteralRhs :
          LET lb0 == [x \in EvalVars \cup {LiteralId} |-> IF x = LiteralId THEN 0 ELSE l[x]]
              ub0 == [x \in EvalVars \cup {LiteralId} |-> IF x = LiteralId THEN 1 ELSE u[x]]
              root == NewAssignments(lb0, ub0)
          IN  /\ \A x \in EvalVars : l[x] <= u[x]
              /\ AscLhs(f, EvalVars) # <<>>
              /\ propagators = <<LinearInequalityLiteralPropagator(
                                    LinearLessOrEqual(AscLhs(f, EvalVars), rhs), LiteralId)>>
              /\ \/ assignments = root
                 \/ \E decision \in {LowerBoundPredicate(LiteralId, 1),
                                     UpperBoundPredicate(LiteralId, 0),
                                     UpperBoundPredicate(0, u[0] - 1)} :
                        /\ decision.domain = 0 => l[0] < u[0]
                        /\ assignments = [root EXCEPT
                                             !.trail = <<TrailEntry(decision, None, 1)>>,
                                             !.decision_level = 1]
    /\ propagator_queue = PropagatorQueue_new(NumPriorityLevels)
    /\ EngineIdle

GetPropagationReasonConstraint ==
    /\ call = NoCall
    /\ LET panicked == get_propagation_reason_constraint_panics(profile, assignments,
                                                                propagators[1])
       IN  call' = [op |-> "get_propagation_reason_constraint",
                    constraint |-> IF panicked THEN LinearLessOrEqual(<<>>, 0)
                                   ELSE get_propagation_reason_constraint(assignments,
                                                                          propagators[1]),
                    panicked |-> panicked]
    /\ UNCHANGED <<cut_in, cut_out, profile, restart_strategy, assignments, propagators, propagator_queue,
                   conflict_info, is_completing_proof, num_conflicts, pc,
                   conflicting_constraint, trail_index, trail_entry, backjump_level,
                   resolve_result, counters, fallback_reason, initialised, process_result,
                   watch_list_cp, reason_store, view, enqueued_order>>

\* The call is recorded and the store it left is kept.
Propagated(r) ==
    /\ call' = [op |-> "debug_propagate_from_scratch", status |-> r.status,
                posted |-> r.posted, literal |-> r.literal]
    /\ assignments' = r.assignments

DebugPropagateFromScratch ==
    /\ call = NoCall
    /\ IF literal_propagate_panics(profile, assignments, propagators[1],
              evaluate_at_trail_position(assignments, propagators[1].linear_inequality,
                                         usize_decrement(num_trail_entries(assignments))))
       THEN Propagated([status |-> "panicked", assignments |-> assignments,
                        posted |-> None, literal |-> None])
       ELSE Propagated(literal_propagate_from_scratch(assignments, propagators[1]))
    /\ UNCHANGED <<cut_in, cut_out, profile, restart_strategy, propagators, propagator_queue,
                   conflict_info, is_completing_proof, num_conflicts, pc,
                   conflicting_constraint, trail_index, trail_entry, backjump_level,
                   resolve_result, counters, fallback_reason, initialised, process_result,
                   watch_list_cp, reason_store, view, enqueued_order>>

NextLiteral == GetPropagationReasonConstraint \/ DebugPropagateFromScratch

SpecLiteral == InitLiteral /\ [][NextLiteral]_vars

---------------------------------------------------------------------------
(* The restart strategy on its own: conflicts and restarts notified in any  *)
(* order, should_restart asked in between                                   *)

MaxMinConflicts == 2
MaxInterval == 2
MaxRestartEvents == 5

\* The values the sequence generator yields.
RestartIntervals == 0..MaxInterval

\* What has been notified so far, with the value drawn where one was.
RestartEvent(event, drawn) == [event |-> event, drawn |-> drawn]

InitRestart ==
    /\ CutIdle
    /\ pc = "idle"
    /\ profile = "release"
    /\ assignments = NewAssignments([x \in {} |-> 0], [x \in {} |-> 0])
    /\ propagators = <<>>
    /\ propagator_queue = PropagatorQueue_new(NumPriorityLevels)
    /\ ResolverIdle
    /\ watch_list_cp = NoWatchers
    /\ reason_store = [level |-> 0]
    /\ view = AffineView(0, 1, 0)
    /\ enqueued_order = <<>>
    /\ \E min \in 0..MaxMinConflicts, first_value \in RestartIntervals :
           /\ restart_strategy = RestartStrategy_new(min, first_value)
           /\ call = [op |-> "new", log |-> <<RestartEvent("new", Some(first_value))>>]

RestartUnchanged ==
    UNCHANGED <<cut_in, cut_out, profile, assignments, propagators, propagator_queue,
                conflict_info, is_completing_proof, num_conflicts, pc,
                conflicting_constraint, trail_index, trail_entry, backjump_level,
                resolve_result, counters, fallback_reason, initialised, process_result,
                watch_list_cp, reason_store, view, enqueued_order>>

ShouldRestart ==
    /\ \E lbd_is_bad \in BOOLEAN :
           call' = [op |-> "should_restart", log |-> call.log, lbd_is_bad |-> lbd_is_bad,
                    result |-> should_restart(restart_strategy, lbd_is_bad)]
    /\ UNCHANGED restart_strategy
    /\ RestartUnchanged

NotifyConflict ==
    /\ Len(call.log) <= MaxRestartEvents
    /\ \E more_assigned \in BOOLEAN, next_value \in RestartIntervals :
           LET after == notify_conflict(restart_strategy, more_assigned, next_value)
               blocked == after.number_of_blocked_restarts
                              > restart_strategy.number_of_blocked_restarts
           IN  /\ restart_strategy' = after
               /\ call' = [op |-> "notify_conflict", blocked |-> blocked,
                           log |-> Append(call.log,
                                       IF blocked THEN RestartEvent("blocked", Some(next_value))
                                       ELSE RestartEvent("conflict", None))]
    /\ RestartUnchanged

NotifyRestart ==
    /\ Len(call.log) <= MaxRestartEvents
    /\ \E next_value \in RestartIntervals :
           /\ restart_strategy' = notify_restart(restart_strategy, next_value)
           /\ call' = [op |-> "notify_restart",
                       log |-> Append(call.log, RestartEvent("restart", Some(next_value)))]
    /\ RestartUnchanged

NextRestart == ShouldRestart \/ NotifyConflict \/ NotifyRestart

SpecRestart == InitRestart /\ [][NextRestart]_vars

---------------------------------------------------------------------------
(* The no-learning resolver on its own: decisions, propagated bounds and    *)
(* conflicts arrive in any order; each conflict goes through                *)
(* resolve_conflict and process                                             *)

NumNoLearningVars == 2
MaxNoLearningValue == 2
MaxNoLearningConflicts == 3

NoLearningVars == 0..(NumNoLearningVars - 1)

InitNoLearning ==
    /\ CutIdle
    /\ ResolverIdle
    /\ EngineIdle
    /\ profile = "release"
    /\ restart_strategy = NoRestartStrategy
    /\ pc = "search"
    /\ assignments = NewAssignments([x \in NoLearningVars |-> 0],
                                    [x \in NoLearningVars |-> MaxNoLearningValue])
    /\ propagators = <<>>
    /\ propagator_queue = PropagatorQueue_new(NumPriorityLevels)

NoLearningUnchanged ==
    UNCHANGED <<cut_in, cut_out, profile, restart_strategy, is_completing_proof,
                conflicting_constraint, trail_index, trail_entry, backjump_level,
                counters, fallback_reason, watch_list_cp, reason_store, view,
                enqueued_order>>

\* The bounds a variable that is not fixed can be given next.
OpenPredicates(a) ==
    UNION {{UpperBoundPredicate(x, v), LowerBoundPredicate(x, v + 1)} :
              <<x, v>> \in {p \in NoLearningVars \X (0..MaxNoLearningValue) :
                               /\ lower_bound(a, p[1]) <= p[2]
                               /\ p[2] < upper_bound(a, p[1])}}

\* The search opens a decision level and decides a predicate.
NoLearningDecide ==
    /\ pc = "search"
    /\ \E predicate \in OpenPredicates(assignments) :
           /\ assignments' = post([assignments EXCEPT !.decision_level = @ + 1],
                                  predicate, None)
           /\ propagator_queue' = notify(propagator_queue, propagators, predicate)
    /\ call' = [op |-> "decide"]
    /\ UNCHANGED <<propagators, conflict_info, num_conflicts, pc, resolve_result,
                   initialised, process_result>>
    /\ NoLearningUnchanged

\* A propagator tightens a bound at the current level.
NoLearningPropagated ==
    /\ pc = "search"
    /\ \E predicate \in OpenPredicates(assignments) :
           /\ assignments' = post(assignments, predicate, EnqueuedReason)
           /\ propagator_queue' = notify(propagator_queue, propagators, predicate)
    /\ call' = [op |-> "propagate"]
    /\ UNCHANGED <<propagators, conflict_info, num_conflicts, pc, resolve_result,
                   initialised, process_result>>
    /\ NoLearningUnchanged

\* A propagator reports a conflict, at the root or above it.
NoLearningConflict ==
    /\ pc = "search"
    /\ num_conflicts < MaxNoLearningConflicts
    /\ num_conflicts' = num_conflicts + 1
    /\ pc' = "conflict"
    /\ call' = [op |-> "conflict"]
    /\ UNCHANGED <<assignments, propagators, propagator_queue, conflict_info,
                   resolve_result, initialised, process_result>>
    /\ NoLearningUnchanged

NoLearningResolve ==
    /\ pc = "conflict"
    /\ resolve_result' = no_learning_resolve_conflict(Context)
    /\ pc' = "returned"
    /\ call' = [op |-> "resolve_conflict"]
    /\ UNCHANGED <<assignments, propagators, propagator_queue, conflict_info,
                   num_conflicts, initialised, process_result>>
    /\ NoLearningUnchanged

NoLearningProcess ==
    /\ pc = "returned"
    /\ IF no_learning_process_panics(resolve_result)
       THEN /\ pc' = "panicked"
            /\ UNCHANGED <<assignments, propagators, propagator_queue, initialised,
                           process_result>>
       ELSE LET ctx == no_learning_process(Context, resolve_result)
            IN  /\ SetContext(ctx)
                /\ pc' = IF ctx.process_result = "Ok" THEN "search" ELSE "unsat"
    /\ call' = [op |-> "process"]
    /\ UNCHANGED <<conflict_info, num_conflicts, resolve_result>>
    /\ NoLearningUnchanged

NextNoLearning ==
    \/ NoLearningDecide
    \/ NoLearningPropagated
    \/ NoLearningConflict
    \/ NoLearningResolve
    \/ NoLearningProcess

SpecNoLearning == InitNoLearning /\ [][NextNoLearning]_vars

---------------------------------------------------------------------------
(* Variable selection on its own: domains with holes drawn by Init         *)

NumSelectVars == 2
MaxSelectValue == 3
SelectVars == 0..(NumSelectVars - 1)

\* Trail entries removing the values of S, in ascending order.
RECURSIVE removals(_, _)
removals(x, S) ==
    IF S = {} THEN <<>>
    ELSE <<TrailEntry(NotEqualPredicate(x, SetMin(S)), None, 0)>>
         \o removals(x, S \ {SetMin(S)})

RECURSIVE all_removals(_, _)
all_removals(removed, x) ==
    IF x >= NumSelectVars THEN <<>>
    ELSE removals(x, removed[x]) \o all_removals(removed, x + 1)

InitSelect ==
    /\ CutIdle
    /\ ResolverIdle
    /\ profile = "release"
    /\ restart_strategy = NoRestartStrategy
    /\ pc = "idle"
    /\ \E l \in [SelectVars -> 0..MaxSelectValue], u \in [SelectVars -> 0..MaxSelectValue],
          removed \in [SelectVars -> SUBSET (1..(MaxSelectValue - 1))] :
           /\ \A x \in SelectVars : l[x] <= u[x] /\ \A v \in removed[x] : l[x] < v /\ v < u[x]
           /\ assignments = [NewAssignments(l, u) EXCEPT !.trail = all_removals(removed, 0)]
    /\ propagators = <<>>
    /\ propagator_queue = PropagatorQueue_new(NumPriorityLevels)
    /\ EngineIdle

\* The selector was built over all the variables, in the order of their ids.
SelectVariable ==
    /\ call = NoCall
    /\ \E selected \in MaxRegret_select_variable([i \in 1..NumSelectVars |-> i - 1],
                                                 assignments) :
           call' = [op |-> "select_variable", selected |-> selected]
    /\ UNCHANGED <<cut_in, cut_out, profile, restart_strategy, assignments, propagators, propagator_queue,
                   conflict_info, is_completing_proof, num_conflicts, pc,
                   conflicting_constraint, trail_index, trail_entry, backjump_level,
                   resolve_result, counters, fallback_reason, initialised, process_result,
                   watch_list_cp, reason_store, view, enqueued_order>>

NextSelect == SelectVariable

SpecSelect == InitSelect /\ [][NextSelect]_vars

---------------------------------------------------------------------------
(* Properties of the cut                                                   *)

AssignBound == 2

\* The cut has been made and returned kind k.
Returned(k) == cut_out.kind = k

\* The coefficient of variable k in c, 0 when k does not occur.
Coef(c, k) == LET s == find_variable_scale(c.lhs, k) IN IF s.some THEN s.v ELSE 0

\* Euclid's algorithm on non-positive numbers: minus the gcd of the
\* magnitudes, which is an i32 for every pair of i32 values.
NegAbs(x) == IF x > 0 THEN -x ELSE x

RECURSIVE NegEuclid(_, _)
NegEuclid(a, b) ==
    IF b = 0 THEN a
    ELSE IF a = 0 THEN b
    ELSE IF a = b THEN a
    ELSE IF a = -1 \/ b = -1 THEN -1
    ELSE IF b = I32_MIN THEN NegEuclid(b, a)
    ELSE NegEuclid(b, Rem(a, b))

NegGcd(a, b) == NegEuclid(NegAbs(a), NegAbs(b))

RECURSIVE NegGcdOf(_, _)
NegGcdOf(f, S) ==
    IF S = {} THEN 0
    ELSE LET k == CHOOSE x \in S : TRUE IN NegGcd(f[k], NegGcdOf(f, S \ {k}))

\* x divided by the positive number whose negation is ng, ng dividing x.
DivByNeg(x, ng) == IF ng = -1 THEN x ELSE -(x \div ng)

\* The multipliers m1 = |c2|/g and m2 = |c1|/g of the cancelling addition.
M1(in) == DivByNeg(AbsI(Coef(in.c2, in.var)), NegGcd(Coef(in.c1, in.var), Coef(in.c2, in.var)))
M2(in) == DivByNeg(AbsI(Coef(in.c1, in.var)), NegGcd(Coef(in.c1, in.var), Coef(in.c2, in.var)))

\* Every product and every sum of m1*C + m2*R is an i32.
ProductsFit(in) ==
    /\ \A k \in Vars : MulFits(M1(in), Coef(in.c1, k)) /\ MulFits(M2(in), Coef(in.c2, k))
    /\ MulFits(in.c1.rhs, M1(in))
    /\ MulFits(in.c2.rhs, M2(in))

SumsFit(in) ==
    /\ \A k \in Vars : AddFits(M1(in) * Coef(in.c1, k), M2(in) * Coef(in.c2, k))
    /\ AddFits(in.c1.rhs * M1(in), in.c2.rhs * M2(in))

CutFits(in) == ProductsFit(in) /\ SumsFit(in)

\* m1*C + m2*R, as a coefficient vector and a right-hand side.
SumCoef(in) == [k \in Vars |-> (M1(in) * Coef(in.c1, k)) + (M2(in) * Coef(in.c2, k))]
SumRhs(in) == (in.c1.rhs * M1(in)) + (in.c2.rhs * M2(in))
SumIds(in) == {k \in Vars : SumCoef(in)[k] # 0}

\* m1*C + m2*R with its zero terms removed and everything divided by the gcd
\* of the remaining coefficients and the rhs: the set of its terms, its rhs.
SumGcd(in) == NegGcd(NegGcdOf(SumCoef(in), SumIds(in)), SumRhs(in))
ExpectedTerms(in) == {<<k, DivByNeg(SumCoef(in)[k], SumGcd(in))>> : k \in SumIds(in)}
ExpectedRhs(in) == DivByNeg(SumRhs(in), SumGcd(in))

Terms(lhs) == {lhs[i] : i \in 1..Len(lhs)}

RECURSIVE SumHi(_, _, _)
SumHi(lhs, i, x) == IF i > Len(lhs) THEN 0 ELSE (Hi(lhs[i][2]) * x[lhs[i][1]]) + SumHi(lhs, i + 1, x)

RECURSIVE SumLo(_, _, _)
SumLo(lhs, i, x) == IF i > Len(lhs) THEN 0 ELSE (Lo(lhs[i][2]) * x[lhs[i][1]]) + SumLo(lhs, i + 1, x)

\* The assignment x satisfies the inequality c.
Satisfies(x, c) ==
    LET l == SumLo(c.lhs, 1, x)
        h == SumHi(c.lhs, 1, x) + (l \div Limb)
    IN  \/ h < Hi(c.rhs)
        \/ h = Hi(c.rhs) /\ (l % Limb) <= Lo(c.rhs)

Assignments == [Vars -> (-AssignBound)..AssignBound]

\* C1: on well-formed inequalities that both contain v with opposite signs,
\* the sum computed by apply_cut has coefficient 0 on v (the "variable not
\* eliminated" assertion holds) and a Success result has no term for v.
CutEliminatesVar ==
    /\ ~Returned("AssertionFailed")
    /\ Returned("Success") => ~contains_variable(cut_out.inequality.lhs, cut_in.var)

CutEliminatesVarWitness ==
    /\ Returned("Success")
    /\ Len(cut_out.inequality.lhs) = NumVars - 1
    /\ AbsI(Coef(cut_in.c1, cut_in.var)) # AbsI(Coef(cut_in.c2, cut_in.var))

\* C2: every integer assignment that satisfies both C and R satisfies the
\* inequality apply_cut returns on Success.
CutIsImplied ==
    Returned("Success") =>
        \A x \in Assignments :
            Satisfies(x, cut_in.c1) /\ Satisfies(x, cut_in.c2) => Satisfies(x, cut_out.inequality)

\* C3: on Success the result is m1*C + m2*R without its zero terms, divided
\* by the gcd of its coefficients and its rhs, whatever the order of terms.
CutIsNormalisedSum ==
    Returned("Success") =>
        /\ CutFits(cut_in)
        /\ Terms(cut_out.inequality.lhs) = ExpectedTerms(cut_in)
        /\ Len(cut_out.inequality.lhs) = Cardinality(ExpectedTerms(cut_in))
        /\ cut_out.inequality.rhs = ExpectedRhs(cut_in)

\* C4: when all variables cancel in m1*C + m2*R, the result is Contradiction
\* if the summed rhs is negative and NothingLearned otherwise; a Success
\* never has an empty lhs.
CutEmptyLhs ==
    /\ Returned("Success") => cut_out.inequality.lhs # <<>>
    /\ (~Returned("None") /\ CutFits(cut_in) /\ SumIds(cut_in) = {}) =>
           IF SumRhs(cut_in) < 0 THEN cut_out = Contradiction ELSE cut_out = NothingLearned

CutEmptyLhsWitness ==
    /\ Returned("Contradiction")
    /\ Len(cut_in.c1.lhs) = NumVars
    /\ Len(cut_in.c2.lhs) = NumVars

CutNothingLearnedWitness ==
    /\ Returned("NothingLearned")
    /\ Len(cut_in.c1.lhs) = NumVars

\* C5: a product or a sum of the cut that is no i32 makes apply_cut return
\* Overflow, never another result.
CutOverflow ==
    (~Returned("None") /\ ~CutFits(cut_in)) => cut_out = Overflow

CutOverflowWitness ==
    /\ Returned("Overflow")
    /\ ProductsFit(cut_in)
    /\ ~SumsFit(cut_in)

CutProductOverflowWitness ==
    /\ Returned("Overflow")
    /\ ~ProductsFit(cut_in)

\* C6: on Success skip_early_backjump is true exactly when v is the only
\* variable that occurs in both C and R.
CutSkipEarlyBackjump ==
    Returned("Success") =>
        (cut_out.skip_early_backjump <=> Ids(cut_in.c1.lhs) \cap Ids(cut_in.c2.lhs) = {cut_in.var})

\* A shared variable that cancels in the sum still counts as a clash.
CutSkipEarlyBackjumpWitness ==
    /\ Returned("Success")
    /\ ~cut_out.skip_early_backjump
    /\ \E k \in (Ids(cut_in.c1.lhs) \cap Ids(cut_in.c2.lhs)) \ {cut_in.var} :
           ~contains_variable(cut_out.inequality.lhs, k)

CutSkipTrueWitness ==
    /\ Returned("Success")
    /\ cut_out.skip_early_backjump
    /\ Len(cut_in.c1.lhs) > 1
    /\ Len(cut_in.c2.lhs) > 1

\* Minus the gcd of the coefficients of c and its rhs.
NegGcdOfInequality(c) ==
    NegGcd(NegGcdOf([i \in 1..Len(c.lhs) |-> c.lhs[i][2]], 1..Len(c.lhs)), c.rhs)

\* The number s is q times the number a, with no rounding.
IsMultiple(s, a, q) ==
    IF a = 0 THEN s = 0
    ELSE /\ ~(s = I32_MIN /\ a = -1)
         /\ Rem(s, a) = 0
         /\ TruncDiv(s, a) = q

\* Every term and the rhs of m1*C + m2*R is q times that of the result.
DividedExactlyBy(q) ==
    /\ \A i \in 1..Len(cut_out.inequality.lhs) :
           IsMultiple(SumCoef(cut_in)[cut_out.inequality.lhs[i][1]],
                      cut_out.inequality.lhs[i][2], q)
    /\ IsMultiple(SumRhs(cut_in), cut_out.inequality.rhs, q)

\* C31: an inequality returned on Success has a non-empty lhs, no zero
\* coefficient, no variable twice, and its coefficients and rhs have gcd 1;
\* it is the sum divided by one number without rounding.
CutResultIsWellFormed ==
    Returned("Success") =>
        /\ cut_out.inequality.lhs # <<>>
        /\ WellFormed(cut_out.inequality)
        /\ NegGcdOfInequality(cut_out.inequality) = -1
        /\ CutFits(cut_in)
        /\ LET first == cut_out.inequality.lhs[1]
           IN  DividedExactlyBy(TruncDiv(SumCoef(cut_in)[first[1]], first[2]))

\* The normalising division was by more than 1.
CutResultIsWellFormedWitness ==
    /\ Returned("Success")
    /\ Len(cut_out.inequality.lhs) > 1
    /\ CutFits(cut_in)
    /\ SumGcd(cut_in) < -1

---------------------------------------------------------------------------
(* Properties of the resolver                                              *)

\* resolve_conflict has returned LearnedConstraint.
ReturnedConstraint == pc = "returned" /\ resolve_result.kind = "Constraint"

\* c is conflicting or propagating under the bounds of a, in exact arithmetic.
ConflictingOrPropagating(a, c) ==
    \/ propagator_conflicts(a, c)
    \/ \E i \in 1..Len(c.lhs) :
           ~predicate_holds(a, propagated_predicate(a, c.lhs[i], exact_slack(a, c)))

\* C7: whenever resolve_conflict returns LearnedConstraint{C, L}, L is
\* strictly below the current decision level and C is conflicting or
\* propagating under the bounds the store holds after backtrack(L).
LearnedBackjumpSound ==
    ReturnedConstraint =>
        /\ resolve_result.backjump_level < get_decision_level(assignments)
        /\ ConflictingOrPropagating(
               synchronise(assignments, resolve_result.backjump_level),
               resolve_result.constraint)

\* The results apply_cut can return for the cut that is due, one for each
\* order the map of the sum can be iterated in.
CutDue ==
    /\ pc = "cut"
    /\ ~explain_step(assignments, propagators, Machine).done

CutOutcomes ==
    LET reason == get_propagator(propagators, trail_entry.reason.v)
        sum == cut_sum(trail_entry.predicate.domain, conflicting_constraint,
                       linear_inequality_explanation(reason).v)
    IN  {cut_finish(profile, ord, sum) : ord \in HashOrders(DOMAIN sum.new_lhs)}

CutYieldsContradiction == CutDue /\ \E cut \in CutOutcomes : cut.kind = "Contradiction"

\* C8, as stated: when a cut made during resolve_conflict yields
\* Contradiction, the resolver returns a learned nogood whose only predicate
\* is the trivially-false predicate, with backjump level 0.
ContradictionReturnsFalseNogood ==
    [][CutYieldsContradiction =>
        /\ pc' = "returned"
        /\ resolve_result' = Nogood(<<trivially_false>>, 0)]_vars

\* C8, amended: when a cut made during resolve_conflict yields
\* Contradiction, the resolver returns a learned nogood whose only predicate
\* is the trivially-true predicate, with backjump level 0, and the fallback
\* is not used.
ContradictionReturnsTrueNogood ==
    [][CutYieldsContradiction =>
        /\ pc' = "returned"
        /\ resolve_result' = Nogood(<<trivially_true>>, 0)
        /\ counters' = counters]_vars

\* The resolver returned from a Contradiction above the root level.
ContradictionWitness ==
    /\ pc = "returned"
    /\ fallback_reason = "None"
    /\ resolve_result = Nogood(<<trivially_true>>, 0)
    /\ get_decision_level(assignments) > 0
    /\ counters.intsat_fallback_used = 0

\* The step returns what the resolution resolver returns on this conflict.
FellBack ==
    /\ pc' = "returned"
    /\ resolve_result' = resolution_resolve_conflict(assignments)
    /\ resolve_result'.kind # "Constraint"
    /\ counters'.intsat_fallback_used = counters.intsat_fallback_used + 1
    /\ counters'.intsat_learned_constraints = counters.intsat_learned_constraints

Unexplained(propagator_id) ==
    ~linear_inequality_explanation(get_propagator(propagators, propagator_id)).some

\* The conflicting propagator, or the propagator that emptied the domain,
\* has no linear explanation.
ConflictUnexplained ==
    /\ pc = "conflict"
    /\ \/ conflict_info.kind = "Propagator" /\ Unexplained(conflict_info.propagator_id)
       \/ /\ conflict_info.kind = "EmptyDomain"
          /\ assignments.trail # <<>>
          /\ assignments.trail[Len(assignments.trail)].reason.some
          /\ Unexplained(assignments.trail[Len(assignments.trail)].reason.v)

\* The propagator that is the reason of the entry the scan stopped at has
\* no linear explanation.
ReasonUnexplained == pc = "cut" /\ Unexplained(trail_entry.reason.v)

\* The scan stands on a decision.
DecisionReached ==
    /\ pc = "scan"
    /\ trail_index < Len(assignments.trail)
    /\ ~assignments.trail[trail_index + 1].reason.some

\* The cut result is not adopted: NothingLearned, Overflow, or an inequality
\* that overflows or is not conflicting at trail_index.
CutRejected(cut) ==
    \/ cut.kind \in {"NothingLearned", "Overflow"}
    \/ /\ cut.kind = "Success"
       /\ \/ overflows(assignments, cut.inequality, trail_index)
          \/ ~is_conflicting(assignments, cut.inequality, trail_index)

\* C9: resolve_conflict returns exactly the result of the resolution
\* fallback, and never a LearnedConstraint, when the conflicting propagator
\* or a reason propagator has no linear explanation, when the scan reaches a
\* decision, when a cut returns NothingLearned or Overflow, and when the cut
\* result overflows or is not conflicting at the current trail index.
FallbackSituations ==
    [][(\/ ConflictUnexplained
        \/ ReasonUnexplained
        \/ DecisionReached
        \/ CutDue /\ \A cut \in CutOutcomes : CutRejected(cut))
       => FellBack]_vars

\* A cut was made, its result was not conflicting at trail_index, and the
\* resolver returned the nogood of the resolution resolver.
FallbackWitness ==
    /\ pc = "returned"
    /\ fallback_reason = "Not conflicting"
    /\ resolve_result = resolution_resolve_conflict(assignments)
    /\ resolve_result.predicates # <<>>

\* C10: process on LearnedConstraint{C, L} backtracks the engine to level L
\* first, then allocates a linear <= propagator for C under a fresh
\* PropagatorId, initialises it and enqueues it; it returns Ok and the new
\* propagator is in the queue afterwards, whatever its initialisation reports.
ProcessInstallsLearned ==
    [][ReturnedConstraint =>
        LET level == resolve_result.backjump_level
            new_propagator_id == Len(propagators)
        IN  /\ assignments'.decision_level = level
            /\ assignments'.trail =
                   SelectSeq(assignments.trail, LAMBDA e : e.level <= level)
            /\ Len(propagators') = Len(propagators) + 1
            /\ SubSeq(propagators', 1, Len(propagators)) = propagators
            /\ propagators'[new_propagator_id + 1].constraint = resolve_result.constraint
            /\ propagators'[new_propagator_id + 1].linear
            /\ initialised' \in {"Ok", "Err"}
            /\ propagator_queue'.present_propagators = {new_propagator_id}
            /\ queue_front(propagator_queue') = new_propagator_id
            /\ process_result' = "Ok"
            /\ pc' = "search"]_vars

\* process has returned Ok although the initialisation of the new propagator
\* failed, and the new propagator is in the queue.
ProcessInitErrWitness ==
    /\ process_result = "Ok"
    /\ initialised = "Err"
    /\ pc = "search"
    /\ is_propagator_enqueued(propagator_queue, Len(propagators) - 1)
    /\ get_propagator(propagators, Len(propagators) - 1).constraint = resolve_result.constraint

\* The decision levels below the current one at whose end c is conflicting
\* or propagating.
MatchingLevels(a, c) ==
    {level \in 0..(get_decision_level(a) - 1) :
        ConflictingOrPropagating(synchronise(a, level), c)}

\* C26: when resolve_conflict returns LearnedConstraint{C, L}, L is the
\* smallest decision level in 0..D-1 (D the current level) at whose end C is
\* conflicting or propagating.
LearnedLevelIsSmallest ==
    ReturnedConstraint =>
        /\ MatchingLevels(assignments, resolve_result.constraint) # {}
        /\ resolve_result.backjump_level
               = SetMin(MatchingLevels(assignments, resolve_result.constraint))

\* The inequality the cut that is due adds to conflicting_constraint.
CutReason ==
    linear_inequality_explanation(get_propagator(propagators, trail_entry.reason.v)).v

\* The two operands of the cut that is due share no variable but the one to
\* be eliminated.
CutOperandsShareOnlyVar ==
    Ids(conflicting_constraint.lhs) \cap Ids(CutReason.lhs) = {trail_entry.predicate.domain}

\* C27: when a cut succeeds with skip_early_backjump = true no backjump
\* level is examined and no LearnedConstraint is returned in that round, and
\* the scan goes on with the cut result; the levels are examined, and a
\* LearnedConstraint is returned, only for the result of a cut whose
\* operands shared a variable other than the eliminated one.
SkipEarlyBackjumpSkipsLevels ==
    /\ [][(CutDue /\ CutOperandsShareOnlyVar) =>
            /\ pc' # "backjump"
            /\ resolve_result'.kind # "Constraint"
            /\ pc' = "scan" =>
                   /\ \E cut \in CutOutcomes :
                          /\ cut.kind = "Success"
                          /\ cut.skip_early_backjump
                          /\ conflicting_constraint' = cut.inequality
                   /\ trail_index' = trail_index]_vars
    /\ [][(pc' = "backjump" /\ pc # "backjump") =>
            /\ CutDue
            /\ ~CutOperandsShareOnlyVar
            /\ \E cut \in CutOutcomes : conflicting_constraint' = cut.inequality]_vars
    /\ [][pc = "backjump" => conflicting_constraint' = conflicting_constraint]_vars
    /\ [][(resolve_result'.kind = "Constraint" /\ pc' = "returned" /\ pc # "returned") =>
            /\ pc = "backjump"
            /\ resolve_result'.constraint = conflicting_constraint]_vars

\* The scan goes on with the result of a cut that skipped the backjump
\* levels: the inequality is none of the propagators', so a cut was adopted,
\* and no level was examined since (the level counter is still 0).
SkipEarlyBackjumpWitness ==
    /\ pc = "scan"
    /\ backjump_level = 0
    /\ trail_entry.reason.some
    /\ ~contains_variable(conflicting_constraint.lhs, trail_entry.predicate.domain)
    /\ \A i \in 1..Len(propagators) : propagators[i].constraint # conflicting_constraint

\* The coefficients of the variable of trail_entry in the two operands.
CutScales ==
    [c1 |-> find_variable_scale(conflicting_constraint.lhs, trail_entry.predicate.domain),
     c2 |-> find_variable_scale(CutReason.lhs, trail_entry.predicate.domain)]

\* The reason of trail_entry has a linear explanation in which the variable
\* has a coefficient of the same sign as in conflicting_constraint.
SameSigns ==
    /\ pc = "cut"
    /\ ~Unexplained(trail_entry.reason.v)
    /\ CutScales.c1.some
    /\ CutScales.c2.some
    /\ (CutScales.c1.v > 0) = (CutScales.c2.v > 0)

\* C28: whenever resolve_conflict calls apply_cut(v, C, R), v occurs in both
\* C and R with coefficients of opposite signs, and neither assertion of
\* apply_cut fails; when the signs are equal no cut is made and the scan
\* goes on, with the same inequality, from the entry before the one of v.
CutOperandsHaveOppositeSigns ==
    /\ [](pc = "cut" /\ ~Unexplained(trail_entry.reason.v)
            => CutScales.c1.some /\ CutScales.c2.some)
    /\ [](CutDue =>
            /\ CutScales.c1.v # 0
            /\ CutScales.c2.v # 0
            /\ (CutScales.c1.v > 0) # (CutScales.c2.v > 0)
            /\ \A cut \in CutOutcomes : cut.kind # "AssertionFailed")
    /\ [][SameSigns =>
            /\ pc' = "scan"
            /\ conflicting_constraint' = conflicting_constraint
            /\ trail_index' = trail_index
            /\ trail_index + 1 < num_trail_entries(assignments)
            /\ get_trail_entry(assignments, trail_index + 1) = trail_entry
            /\ resolve_result' = resolve_result
            /\ cut_out' = cut_out]_vars

\* The scan stands on the entry before trail_entry, whose variable has
\* coefficients of the same sign in the inequality and in its reason.
SameSignsWitness ==
    /\ pc = "scan"
    /\ trail_entry.reason.some
    /\ trail_index + 1 < num_trail_entries(assignments)
    /\ get_trail_entry(assignments, trail_index + 1) = trail_entry
    /\ ~Unexplained(trail_entry.reason.v)
    /\ CutScales.c1.some
    /\ CutScales.c2.some
    /\ (CutScales.c1.v > 0) = (CutScales.c2.v > 0)

\* Under the bounds in force when the trail stood at trail_position, the
\* sum of the lower bounds of the terms of c exceeds its rhs (exactly).
ConflictingAt(a, c, trail_position) ==
    propagator_conflicts([a EXCEPT !.trail = SubSeq(@, 1, trail_position + 1)], c)

\* trail_index is the position just before the entry the scan stopped at.
JustBeforeCutEntry ==
    /\ trail_index + 1 < num_trail_entries(assignments)
    /\ get_trail_entry(assignments, trail_index + 1) = trail_entry

\* Every result the cut that is due can have is an inequality that is not
\* conflicting at trail_index.
CutNotConflicting ==
    /\ CutDue
    /\ \A cut \in CutOutcomes :
           /\ cut.kind = "Success"
           /\ ~ConflictingAt(assignments, cut.inequality, trail_index)

\* C29: whenever resolve_conflict replaces its conflicting constraint by a
\* cut result, the result is conflicting at the trail position just before
\* the entry whose variable was eliminated; a cut result that is not
\* conflicting there is not adopted and not returned: the resolver falls back.
AdoptedCutIsConflicting ==
    /\ [][(pc = "cut" /\ pc' \in {"scan", "backjump"} /\ CutDue) =>
            /\ \E cut \in CutOutcomes : conflicting_constraint' = cut.inequality
            /\ JustBeforeCutEntry
            /\ ConflictingAt(assignments, conflicting_constraint', trail_index)]_vars
    /\ [][conflicting_constraint' # conflicting_constraint => (pc = "conflict" \/ CutDue)]_vars
    /\ [][CutNotConflicting =>
            /\ FellBack
            /\ conflicting_constraint' = conflicting_constraint]_vars
    /\ []((pc = "backjump" \/ ReturnedConstraint) =>
            ConflictingAt(assignments, conflicting_constraint, trail_index))
    /\ [](ReturnedConstraint => resolve_result.constraint = conflicting_constraint)

\* A cut result was adopted and the backjump levels are about to be examined.
AdoptedCutWitness ==
    /\ pc = "backjump"
    /\ backjump_level = 0
    /\ JustBeforeCutEntry
    /\ ~contains_variable(conflicting_constraint.lhs, trail_entry.predicate.domain)
    /\ \A i \in 1..Len(propagators) : propagators[i].constraint # conflicting_constraint

\* The position of the most recent decision on the trail.
LastDecisionIndex ==
    SetMax({i \in 0..(num_trail_entries(assignments) - 1) :
               ~get_trail_entry(assignments, i).reason.some})

Resolving == pc \in {"scan", "cut", "backjump"}

\* C30: resolve_conflict, called at decision level > 0, always terminates
\* with a result; the trail index decreases by one on every pass of the
\* scan and never below 0, the scan does not pass the most recent decision,
\* and no cut is made with an entry of an earlier decision level.
ResolveTerminates ==
    /\ (pc = "conflict" /\ get_decision_level(assignments) > 0) ~> (pc = "returned")
    /\ [][(pc = "scan" /\ pc' \in {"scan", "cut"}) =>
            /\ trail_index >= 1
            /\ trail_index' = trail_index - 1]_vars
    /\ [][(pc \in {"cut", "backjump"}) => trail_index' = trail_index]_vars
    /\ [](pc = "scan" =>
            /\ trail_index >= LastDecisionIndex
            /\ trail_index < num_trail_entries(assignments))
    /\ [](pc = "cut" =>
            /\ trail_entry.reason.some
            /\ trail_entry.level = get_decision_level(assignments)
            /\ JustBeforeCutEntry
            /\ trail_index >= LastDecisionIndex)

---------------------------------------------------------------------------
(* Properties of the tests on an inequality                                *)

Evaluated == call.op = "evaluate"

\* C32: when overflows(C, t) is false, every product a_i * lb(x_i) and
\* a_i * ub(x_i) that is_conflicting and is_propagating compute is an i32,
\* so the two tests neither wrap nor panic.
NoOverflowMeansProductsFit ==
    (Evaluated /\ ~call.overflows) => (~call.unfit /\ ~call.panicked)

\* Every variable of the inequality has lb <= ub at the trail position.
DomainsNonEmpty(a, c, trail_position) ==
    \A i \in 1..Len(c.lhs) :
        lower_bound_at_trail_position(a, c.lhs[i][1], trail_position)
            <= upper_bound_at_trail_position(a, c.lhs[i][1], trail_position)

\* C33: on a non-empty lhs whose variables all have lb <= ub at the trail
\* position, is_conflicting implies is_propagating (of the calls that
\* return).
ConflictingImpliesPropagating ==
    (/\ Evaluated
     /\ ~call.panicked
     /\ conflicting_constraint.lhs # <<>>
     /\ DomainsNonEmpty(assignments, conflicting_constraint, trail_index))
        => (call.is_conflicting => call.is_propagating)

---------------------------------------------------------------------------
(* Properties of the literal propagator                                    *)

\* The assignments of the variables of the inequality within their initial
\* domains, with the value p of the literal.
InitialAssignments(a, p) ==
    {x \in [EvalVars \cup {LiteralId} -> SetMin(LiteralValues)..SetMax(LiteralValues)] :
        /\ x[LiteralId] = p
        /\ \A k \in EvalVars : a.lb[k] <= x[k] /\ x[k] <= a.ub[k]}

i64_max(a, b) == IF i64_lt(a, b) THEN b ELSE a

RECURSIVE exact_initial_from(_, _, _, _)
exact_initial_from(a, lhs, i, upper) ==
    IF i > Len(lhs) THEN I64(0)
    ELSE LET takes_upper == (lhs[i][2] > 0) = upper
             bound == IF takes_upper THEN a.ub[lhs[i][1]] ELSE a.lb[lhs[i][1]]
         IN  i64_add(i64_scale(lhs[i][2], bound), exact_initial_from(a, lhs, i + 1, upper))

\* M = max(0, ub0(Ax) - b, -lb0(Ax) + b + 1) over the initial domains.
ExactBigM(a, c) ==
    i64_max(I64(0),
        i64_max(i64_sub(exact_initial_from(a, c.lhs, 1, TRUE), I64(c.rhs)),
                i64_add(i64_sub(I64(c.rhs), exact_initial_from(a, c.lhs, 1, FALSE)), I64(1))))

ReasonReturned == call.op = "get_propagation_reason_constraint" /\ ~call.panicked

\* C37: get_propagation_reason_constraint returns Ax + M*p <= b + M with
\* M = max(0, ub0(Ax) - b, -lb0(Ax) + b + 1) over the initial domains, and for
\* every assignment within the initial domains and p in {0, 1} that
\* inequality holds if and only if p = 0 or Ax <= b.
ReasonIsTheBigMInequality ==
    ReasonReturned =>
        LET c == propagators[1].linear_inequality
            r == call.constraint
            M == ExactBigM(assignments, c)
        IN  /\ Len(r.lhs) = Len(c.lhs) + 1
            /\ SubSeq(r.lhs, 1, Len(c.lhs)) = c.lhs
            /\ r.lhs[Len(r.lhs)][1] = LiteralId
            /\ I64(r.lhs[Len(r.lhs)][2]) = M
            /\ I64(r.rhs) = i64_add(I64(c.rhs), M)
            /\ \A p \in {0, 1} : \A x \in InitialAssignments(assignments, p) :
                   Satisfies(x, r) <=> (p = 0 \/ Satisfies(x, c))

PredicatePosted == call.op = "debug_propagate_from_scratch" /\ call.posted.some

MaxPredicateValue == 4

predicate_true_of(predicate, v) ==
    IF predicate.kind = "lb" THEN v >= predicate.value ELSE v <= predicate.value

\* C38: for a single term a*x <= b and an assigned literal, the predicate
\* posted on x is equivalent over the integers to a*x <= b when the literal
\* is 1 and to a*x > b when it is 0, for either sign of a and every b.
PostedPredicateIsTheInequality ==
    PredicatePosted =>
        LET c == propagators[1].linear_inequality
        IN  \A v \in (-MaxPredicateValue)..MaxPredicateValue :
                predicate_true_of(call.posted.v, v) <=>
                    (Satisfies([k \in {c.lhs[1][1]} |-> v], c) <=> (call.literal.v = 1))

---------------------------------------------------------------------------
(* Properties of the restart strategy                                      *)

\* The positions of the log where a value was drawn: new, restart, blocked.
Drawn(log) == {i \in 1..Len(log) : log[i].drawn.some}

RestartsIn(log) == Cardinality({i \in 1..Len(log) : log[i].event = "restart"})

\* Every conflict notified, those that blocked a restart included.
ConflictsIn(log) ==
    Cardinality({i \in 1..Len(log) : log[i].event \in {"conflict", "blocked"}})

\* The conflicts notified since the last restart or blocked restart.
ConflictsSinceReset(log) == Len(log) - SetMax(Drawn(log))

\* The value the sequence generator yielded last.
CurrentSequenceValue(log) == log[SetMax(Drawn(log))].drawn.v

ShouldRestartIsHeldBack ==
    call.op = "should_restart" =>
        /\ (/\ RestartsIn(call.log) = 0
            /\ ConflictsIn(call.log)
                   < restart_strategy.minimum_number_of_conflicts_before_first_restart)
               => ~call.result
        /\ ConflictsSinceReset(call.log) < CurrentSequenceValue(call.log) => ~call.result

ResetsDrawTheNextValue ==
    (call'.op = "notify_restart" \/ (call'.op = "notify_conflict" /\ call'.blocked))
    => /\ restart_strategy'.number_of_conflicts_encountered_since_restart = 0
       /\ restart_strategy'.sequence_generator = restart_strategy.sequence_generator + 1
       /\ restart_strategy'.number_of_conflicts_until_restart
              = call'.log[Len(call'.log)].drawn.v

OnlyNotifyRestartCounts ==
    restart_strategy'.number_of_restarts =
        restart_strategy.number_of_restarts + (IF call'.op = "notify_restart" THEN 1 ELSE 0)

\* C39: should_restart returns false while no restart has happened and fewer
\* than min_num_conflicts_before_first_restart conflicts have been notified,
\* and while fewer conflicts than the current sequence value have been
\* notified since the last restart or blocked restart; notify_restart and a
\* blocked restart reset the conflict counter to 0 and draw the next
\* sequence value; only notify_restart increments the restart count.
RestartStrategyHoldsBack ==
    /\ []ShouldRestartIsHeldBack
    /\ [][ResetsDrawTheNextValue /\ OnlyNotifyRestartCounts]_vars

\* should_restart has answered false to a bad LBD before the first restart,
\* after a blocked restart, with the sequence value already reached.
HeldBackBeforeFirstRestartWitness ==
    /\ call.op = "should_restart"
    /\ call.lbd_is_bad
    /\ ~call.result
    /\ restart_strategy.number_of_restarts = 0
    /\ restart_strategy.number_of_blocked_restarts > 0
    /\ restart_strategy.number_of_conflicts_encountered_since_restart
           >= restart_strategy.number_of_conflicts_until_restart
    /\ restart_strategy.number_of_conflicts_encountered_since_restart > 0

---------------------------------------------------------------------------
(* Properties of the no-learning resolver                                  *)

\* The positions of the trail that hold a decision.
DecisionPositions(a) == {i \in 1..Len(a.trail) : ~a.trail[i].reason.some}

\* The trail below the current decision level.
KeptBelow(a) == SelectSeq(a.trail, LAMBDA e : e.level <= a.decision_level - 1)

ResolveReturnsNone == pc = "conflict" => resolve_result' = NoResult

ProcessUndoesTheLastDecision ==
    (pc = "returned" /\ resolve_result = NoResult /\ DecisionPositions(assignments) # {}) =>
        LET last_decision == assignments.trail[SetMax(DecisionPositions(assignments))].predicate
            kept == KeptBelow(assignments)
            trail == assignments'.trail
        IN  /\ process_result' = "Ok"
            /\ assignments'.decision_level = assignments.decision_level - 1
            /\ Len(trail) = Len(kept) + 1
            /\ SubSeq(trail, 1, Len(kept)) = kept
            /\ trail[Len(trail)].predicate = negate(last_decision)
            /\ trail[Len(trail)].reason.some
            /\ trail[Len(trail)].level = assignments.decision_level - 1

ProcessWithoutDecisionIsErr ==
    (pc = "returned" /\ resolve_result = NoResult /\ DecisionPositions(assignments) = {}) =>
        /\ process_result' = "Err"
        /\ assignments' = assignments
        /\ propagator_queue' = propagator_queue

\* C40: resolve_conflict of the NoLearningResolver returns None; process,
\* given None, backtracks to one level below the current decision level and
\* then enqueues the negation of the last decision as a propagated
\* predicate, returning Ok; with no decision on the trail it returns Err and
\* neither backtracks nor enqueues.
NoLearningUndoesTheLastDecision ==
    [][ResolveReturnsNone /\ ProcessUndoesTheLastDecision /\ ProcessWithoutDecisionIsErr]_vars

\* process has backtracked from a level above 1, dropping entries and
\* keeping others, and has asserted the negated decision.
NoLearningBacktrackedWitness ==
    /\ call.op = "process"
    /\ process_result = "Ok"
    /\ assignments.decision_level >= 1
    /\ Len(assignments.trail) >= 3
    /\ assignments.trail[Len(assignments.trail)].reason.some
    /\ num_conflicts >= 2

\* process has returned Err at the root.
NoLearningErrWitness ==
    /\ call.op = "process"
    /\ process_result = "Err"
    /\ assignments.trail # <<>>

---------------------------------------------------------------------------
(* Properties of the propagator queue                                      *)

\* The places <<priority, index>> at which propagator_id stands in the queues.
places(q, propagator_id) ==
    {pl \in UNION {{<<p, i>> : i \in 1..Len(q.queues[p])} : p \in DOMAIN q.queues} :
        q.queues[pl[1]][pl[2]] = propagator_id}

queued_ids(q) == {id \in PropagatorIds : places(q, id) # {}}

\* C11: after any sequence of enqueue_propagator, pop and clear every
\* PropagatorId stands at most once in all the priority queues together (and
\* is recorded as present exactly when it stands in one), and an
\* enqueue_propagator of an id that is present, with whatever priority,
\* leaves the queue as it was.
QueueHoldsEachIdOnce ==
    /\ [](/\ \A id \in PropagatorIds : Cardinality(places(propagator_queue, id)) <= 1
          /\ queued_ids(propagator_queue) = propagator_queue.present_propagators)
    /\ [][(/\ call'.op = "enqueue_propagator"
           /\ is_propagator_enqueued(propagator_queue, call'.id))
          => propagator_queue' = propagator_queue]_vars

\* An id that waits at one priority has just been enqueued with another.
EnqueuedAgainWitness ==
    /\ call.op = "enqueue_propagator"
    /\ \E pl \in places(propagator_queue, call.id) : pl[1] # call.priority

\* The pairs of enqueued_order with the least priority.
RECURSIVE of_priority(_, _)
of_priority(order, priority) ==
    IF order = <<>> THEN <<>>
    ELSE IF Head(order)[2] = priority THEN <<Head(order)>> \o of_priority(Tail(order), priority)
    ELSE of_priority(Tail(order), priority)

least_priority(order) == SetMin({order[i][2] : i \in 1..Len(order)})

order_ids(order) == {order[i][1] : i \in 1..Len(order)}

\* C12: everything enqueued and neither popped nor cleared is in the queue;
\* a pop on a non-empty queue returns the propagator that was enqueued
\* earliest among those of the numerically least priority enqueued, takes
\* that propagator out of the queue and leaves every other one in it.
PopIsLeastPriorityFifo ==
    /\ [](order_ids(enqueued_order) = propagator_queue.present_propagators)
    /\ [][(call'.op = "pop" /\ propagator_queue' # propagator_queue)
          => /\ enqueued_order # <<>>
             /\ call'.id = Head(of_priority(enqueued_order, least_priority(enqueued_order)))[1]
             /\ \A i \in 1..Len(enqueued_order) :
                    enqueued_order[i][2] >= least_priority(enqueued_order)
             /\ propagator_queue'.present_propagators
                    = order_ids(enqueued_order) \ {call'.id}
             /\ queued_ids(propagator_queue') = order_ids(enqueued_order) \ {call'.id}]_vars

\* A pop has returned a propagator while another of its own priority and one
\* of a numerically greater priority still wait.
PopWitness ==
    /\ call.op = "pop"
    /\ \E i \in 1..Len(enqueued_order) : enqueued_order[i][2] = call.priority
    /\ \E i \in 1..Len(enqueued_order) : enqueued_order[i][2] > call.priority

\* C13: after clear the queue is empty, every priority level's queue is
\* empty, and any propagator, one dropped by the clear included, can be
\* enqueued again with any priority and is then what pop returns.
ClearEmptiesEveryLevel ==
    [][call'.op = "clear"
       => /\ queue_is_empty(propagator_queue')
          /\ \A p \in Priorities : propagator_queue'.queues[p] = <<>>
          /\ \A id \in PropagatorIds, p \in Priorities :
                LET again == enqueue_propagator(propagator_queue', id, p)
                IN  /\ is_propagator_enqueued(again, id)
                    /\ queue_front(again) = id
                    /\ queue_is_empty(queue_pop(again))]_vars

\* A clear has dropped two propagators or more.
ClearWitness ==
    /\ call.op = "clear"
    /\ Cardinality(call.dropped) >= 2
    /\ queue_is_empty(propagator_queue)

\* The priorities recorded in the heap, and the ids stored in the queues.
recorded_priorities(q) == {q.present_priorities[i] : i \in 1..Len(q.present_priorities)}
stored_ids(q) == UNION {{q.queues[p][i] : i \in 1..Len(q.queues[p])} : p \in DOMAIN q.queues}

\* C36: the recorded priorities are the levels whose queue is non-empty,
\* each recorded once; the present propagators are the ids stored in the
\* queues; so is_empty holds exactly when every queue is empty, and the
\* top priority of a non-empty queue has a non-empty queue.
QueueRecordsAreExact ==
    /\ recorded_priorities(propagator_queue)
           = {p \in DOMAIN propagator_queue.queues : propagator_queue.queues[p] # <<>>}
    /\ Cardinality(recorded_priorities(propagator_queue))
           = Len(propagator_queue.present_priorities)
    /\ propagator_queue.present_propagators = stored_ids(propagator_queue)
    /\ queue_is_empty(propagator_queue)
           <=> \A p \in DOMAIN propagator_queue.queues : propagator_queue.queues[p] = <<>>
    /\ ~queue_is_empty(propagator_queue)
           => propagator_queue.queues[heap_peek(propagator_queue.present_priorities)] # <<>>

\* A pop has emptied the queue of its priority while propagators of other
\* priorities wait.
PopEmptiedLevelWitness ==
    /\ call.op = "pop"
    /\ propagator_queue.queues[call.priority] = <<>>
    /\ Len(propagator_queue.present_priorities) >= 2

---------------------------------------------------------------------------
(* Properties of the engine                                                *)

\* x with its bounds under a.
domain_bounds(a) == [x \in DOMAIN a.lb |-> <<lower_bound(a, x), upper_bound(a, x)>>]

TightenWithinBoundIsNoOp ==
    [][(\/ /\ call'.op = "tighten_lower_bound"
           /\ call'.v <= lower_bound(assignments, call'.x)
        \/ /\ call'.op = "tighten_upper_bound"
           /\ call'.v >= upper_bound(assignments, call'.x))
       => /\ assignments' = assignments
          /\ call'.notified = <<>>
          /\ propagator_queue' = propagator_queue]_vars

\* The engine operations that change a domain.
DomainOperations ==
    {"tighten_lower_bound", "tighten_upper_bound", "make_assignment", "remove_value_from_domain"}

\* C16: whenever a successful bound change, made by any of the four domain
\* operations, leaves the variable assigned (lb = ub), the Assign watchers of
\* the variable are notified in that call, after the LowerBound and
\* UpperBound watchers, and so are in the queue when it returns.
AssignWatchersNotified ==
    [][(/\ call'.op \in DomainOperations
        /\ call'.outcome = "Success"
        /\ domain_bounds(assignments')[call'.x] # domain_bounds(assignments)[call'.x]
        /\ lower_bound(assignments', call'.x) = upper_bound(assignments', call'.x))
       => /\ call'.notified # <<>>
          /\ call'.notified[Len(call'.notified)] = "Assign"
          /\ \A i \in 1..(Len(call'.notified) - 1) :
                 call'.notified[i] \in {"LowerBound", "UpperBound"}
          /\ \A i \in 1..Len(watchers(watch_list_cp, call'.x, "Assign")) :
                 is_propagator_enqueued(propagator_queue',
                                        watchers(watch_list_cp, call'.x, "Assign")[i])]_vars

\* C17: remove_value_from_domain(x, v) with v < lb(x) or v > ub(x) is a
\* no-op: it returns Success, leaves the domain and the trail as they were
\* and enqueues no propagator.
RemoveOutsideBoundsIsNoOp ==
    [][(/\ call'.op = "remove_value_from_domain"
        /\ \/ call'.v < lower_bound(assignments, call'.x)
           \/ call'.v > upper_bound(assignments, call'.x))
       => /\ call'.outcome = "Success"
          /\ assignments' = assignments
          /\ propagator_queue' = propagator_queue]_vars

\* C34: a domain operation that returns Failure notifies no watcher and
\* leaves the propagator queue as it was.
FailureNotifiesNobody ==
    [][(call'.op \in DomainOperations /\ call'.outcome = "Failure")
       => /\ call'.notified = <<>>
          /\ propagator_queue' = propagator_queue]_vars

\* A tightening has failed on a watched variable; propagators were waiting
\* in the queue.
FailureWitness ==
    /\ call.op = "tighten_lower_bound"
    /\ call.outcome = "Failure"
    /\ watchers(watch_list_cp, call.x, "LowerBound") # <<>>
    /\ ~queue_is_empty(propagator_queue)

\* The other three operations have failed as well.
AllOperationsFailWitness ==
    /\ call.op = "remove_value_from_domain"
    /\ call.outcome = "Failure"
    /\ watchers(watch_list_cp, call.x, "Hole") # <<>>

\* The ids of the watchers of <<x, event>>.
watcher_ids(watch_list, x, event) ==
    {watchers(watch_list, x, event)[i] : i \in 1..Len(watchers(watch_list, x, event))}

\* The class a removal that changed the domain has to notify.
class_of_removal(before, after, x) ==
    IF lower_bound(before, x) < lower_bound(after, x) THEN "LowerBound"
    ELSE IF upper_bound(before, x) > upper_bound(after, x) THEN "UpperBound"
    ELSE "Hole"

\* C35: a successful remove_value_from_domain that changes the domain
\* notifies one watcher class and no other: LowerBound if the lower bound
\* went up, otherwise UpperBound if the upper bound went down, otherwise
\* Hole; the propagators it enqueues are the watchers of that class.
RemovalNotifiesOneClass ==
    [][(/\ call'.op = "remove_value_from_domain"
        /\ call'.outcome = "Success"
        /\ assignments' # assignments)
       => /\ call'.notified = <<class_of_removal(assignments, assignments', call'.x)>>
          /\ propagator_queue'.present_propagators
                 = propagator_queue.present_propagators
                   \cup watcher_ids(watch_list_cp, call'.x,
                                    class_of_removal(assignments, assignments', call'.x))]_vars

\* A removal has raised the lower bound of a variable whose Hole watcher is
\* not among its bound watchers, and the Hole watcher is not in the queue.
RemovalOfBoundWitness ==
    /\ call.op = "remove_value_from_domain"
    /\ call.outcome = "Success"
    /\ call.notified = <<"LowerBound">>
    /\ call.v < lower_bound(assignments, call.x)
    /\ \E id \in watcher_ids(watch_list_cp, call.x, "Hole") :
           /\ id \notin watcher_ids(watch_list_cp, call.x, "LowerBound")
           /\ ~is_propagator_enqueued(propagator_queue, id)

\* A removal has made a hole.
RemovalOfInteriorWitness ==
    /\ call.op = "remove_value_from_domain"
    /\ call.outcome = "Success"
    /\ call.v \in holes(assignments, call.x)
    /\ call.notified = <<"Hole">>

---------------------------------------------------------------------------
(* Properties of the affine views                                          *)

\* The value of the view at the value w of its inner variable.
view_at(y, w) == y.scale * w + y.offset

\* The values the inner variable can take between its bounds.
inner_values(a, y) == lower_bound(a, y.inner)..upper_bound(a, y.inner)

\* C18: for a view y = a*x + b with a of either sign and every value v: after
\* set_lower_bound(y, v) returns Ok, lower_bound(y) >= v; after
\* set_upper_bound(y, v) returns Ok, upper_bound(y) <= v; and the inner bound
\* written is the weakest that achieves this: no value of x whose y is on the
\* right side of v is cut off.
SetBoundAchievesBound ==
    [][/\ (call'.op = "set_lower_bound" /\ call'.outcome = "Success")
          => /\ AffineView_lower_bound(view, assignments') >= call'.v
             /\ \A w \in inner_values(assignments, view) :
                    view_at(view, w) >= call'.v => w \in inner_values(assignments', view)
       /\ (call'.op = "set_upper_bound" /\ call'.outcome = "Success")
          => /\ AffineView_upper_bound(view, assignments') <= call'.v
             /\ \A w \in inner_values(assignments, view) :
                    view_at(view, w) <= call'.v => w \in inner_values(assignments', view)]_vars

\* Does the bound predicate hold when its variable takes the value w?
holds_at(predicate, w) ==
    IF predicate.kind = "lb" THEN w >= predicate.value ELSE w <= predicate.value

\* The integers a predicate on the inner variable is tried on.
InnerRange == (0 - (2 * MaxInner + MaxOffset + 2))..(2 * MaxInner + MaxOffset + 2)

\* C19: for a view y = a*x + b with a of either sign and every bound v,
\* lower_bound_predicate(v) is a predicate on the inner variable that holds
\* for an integer x exactly when a*x + b >= v, and upper_bound_predicate(v)
\* one that holds exactly when a*x + b <= v.
BoundPredicateIsEquivalent ==
    /\ call.op = "lower_bound_predicate"
       => /\ call.predicate.domain = view.inner
          /\ \A w \in InnerRange : holds_at(call.predicate, w) <=> view_at(view, w) >= call.v
    /\ call.op = "upper_bound_predicate"
       => /\ call.predicate.domain = view.inner
          /\ \A w \in InnerRange : holds_at(call.predicate, w) <=> view_at(view, w) <= call.v

subscribed(watch_list, propagator_id, x) ==
    {e \in Events : \E i \in 1..Len(watchers(watch_list, x, e)) :
                        watchers(watch_list, x, e)[i] = propagator_id}

\* The other bound event; Assign and Hole are their own.
opposite(event) ==
    IF event = "LowerBound" THEN "UpperBound"
    ELSE IF event = "UpperBound" THEN "LowerBound" ELSE event

\* C21: a watch registered through a view of negative scale for exactly one
\* of LowerBound and UpperBound subscribes to the opposite bound event of the
\* inner variable, Assign and Hole are forwarded as they are, a request for
\* both bound events stays both, and unpack_event maps every inner event
\* subscribed to back to a kind that was registered for, every registered
\* kind being the image of one; with a positive scale nothing is swapped.
WatchThroughViewRoundTrip ==
    call.op = "watch_all"
    => LET inner == subscribed(watch_list_cp, 0, view.inner)
       IN  /\ view.scale > 0 => inner = call.events
           /\ view.scale < 0
              => /\ inner \ BoundEvents = call.events \ BoundEvents
                 /\ inner \cap BoundEvents = {opposite(e) : e \in call.events \cap BoundEvents}
           /\ {AffineView_unpack_event(view, e) : e \in inner} = call.events

\* A view of negative scale has been watched for one bound event and Assign.
WatchWitness ==
    /\ call.op = "watch_all"
    /\ view.scale < 0
    /\ call.events = {"LowerBound", "Assign"}
    /\ subscribed(watch_list_cp, 0, view.inner) = {"UpperBound", "Assign"}

\* C22: for a view y = s*x + o and an integer k, with no overflow,
\* y.scaled(k) is the view (k*s)*x + k*o, whose value is k times the value
\* of y at every inner value, and y.offset(k) is s*x + (o + k); scaled(1) and
\* offset(0) return a view equal to y.
ViewComposition ==
    [][/\ call'.op = "scaled"
          => /\ view' = AffineView(view.inner, call'.k * view.scale, call'.k * view.offset)
             /\ \A w \in InnerRange : view_at(view', w) = call'.k * view_at(view, w)
             /\ call'.k = 1 => view' = view
       /\ call'.op = "offset"
          => /\ view' = AffineView(view.inner, view.scale, view.offset + call'.k)
             /\ \A w \in InnerRange : view_at(view', w) = view_at(view, w) + call'.k
             /\ call'.k = 0 => view' = view]_vars

\* A view with an offset has been scaled by a factor other than 0 and 1.
ScaledWitness ==
    /\ call.op = "scaled"
    /\ call.k \notin {0, 1}
    /\ view.offset # 0

---------------------------------------------------------------------------
(* Properties of the variable selection                                    *)

\* The distance between the two smallest values x can still take.
regret(a, x) ==
    LET least == SetMin(remaining(a, x))
    IN  SetMin(remaining(a, x) \ {least}) - least

\* C25: select_variable returns, among the variables that are not fixed, one
\* whose distance between the smallest and the second-smallest value still
\* in its domain (removed values skipped) is greatest; a fixed variable is
\* never returned, and None is returned when every variable is fixed.
MaxRegretSelectsGreatestRegret ==
    call.op = "select_variable"
    => IF \A x \in SelectVars : lower_bound(assignments, x) = upper_bound(assignments, x)
       THEN call.selected = None
       ELSE /\ call.selected.some
            /\ lower_bound(assignments, call.selected.v)
                   < upper_bound(assignments, call.selected.v)
            /\ \A x \in SelectVars :
                   lower_bound(assignments, x) < upper_bound(assignments, x)
                   => regret(assignments, x) <= regret(assignments, call.selected.v)

\* The variable selected has a removed value next to its lower bound, and
\* another variable that is not fixed has a smaller regret.
MaxRegretWitness ==
    /\ call.op = "select_variable"
    /\ call.selected.some
    /\ lower_bound(assignments, call.selected.v) + 1 \in holes(assignments, call.selected.v)
    /\ \E x \in SelectVars :
           /\ lower_bound(assignments, x) < upper_bound(assignments, x)
           /\ regret(assignments, x) < regret(assignments, call.selected.v)

---------------------------------------------------------------------------
(* Properties of the search                                                *)

\* The constraints that were posted: the store without the inequalities and
\* nogoods learned since.
installed_constraints ==
    counters.intsat_learned_constraints - (IF ReturnedConstraint THEN 1 ELSE 0)
learned_ids ==
    LET stored_nogoods == Cardinality({i \in 1..Len(propagators) : is_nogood(propagators[i])})
    IN  (Len(propagators) - installed_constraints - stored_nogoods + 1)..Len(propagators)
posted_ids == (1..Len(propagators)) \ learned_ids

\* The assignments within the declared bounds that satisfy every posted
\* constraint.
declared_box ==
    {x \in [DOMAIN assignments.lb ->
               SetMin({assignments.lb[k] : k \in DOMAIN assignments.lb})
               ..SetMax({assignments.ub[k] : k \in DOMAIN assignments.ub})] :
        \A k \in DOMAIN x : assignments.lb[k] <= x[k] /\ x[k] <= assignments.ub[k]}
solutions == {x \in declared_box : \A i \in posted_ids : Satisfies(x, propagators[i].constraint)}

\* The predicate holds under the assignment x.
holds_under(x, predicate) ==
    IF predicate.kind = "lb" THEN x[predicate.domain] >= predicate.value
    ELSE x[predicate.domain] <= predicate.value

\* The propagator does not exclude the assignment x.
admits(propagator, x) ==
    IF is_nogood(propagator)
    THEN \E i \in 1..Len(propagator.predicates) : ~holds_under(x, propagator.predicates[i])
    ELSE Satisfies(x, propagator.constraint)

\* The assignment satisfy returns with Satisfiable.
solution == [x \in DOMAIN assignments.lb |-> lower_bound(assignments, x)]

\* C24: satisfy returns Satisfiable only with an assignment within the
\* declared bounds that satisfies every posted constraint, it never returns
\* Unsatisfiable when such an assignment exists, and no learned inequality
\* or nogood in the store excludes such an assignment.
SearchIsSound ==
    /\ pc = "sat" => solution \in solutions
    /\ pc = "unsat" => solutions = {}
    /\ \A i \in learned_ids : \A x \in solutions : admits(propagators[i], x)

\* Satisfiable was returned after an inequality was learned and installed.
SatisfiableAfterLearningWitness ==
    /\ pc = "sat"
    /\ installed_constraints > 0
    /\ Cardinality(solutions) > 1

\* The search is run on the problem: its bounds were declared and its
\* constraints posted.
SolvingProblem(problem) ==
    /\ assignments.lb = problem.lb
    /\ assignments.ub = problem.ub
    /\ Len(propagators) >= Len(problem.propagators)
    /\ SubSeq(propagators, 1, Len(problem.propagators)) = problem.propagators

SolvingInfeasibleExample == \E problem \in InfeasibleExamples : SolvingProblem(problem)

\* C23: on x, y in [0,3] with 3x + 4y <= -2 and -y <= -1, and on x, y in
\* [-10,1], z in [-10,3] with -x-y-z <= -2, x+y <= 1, x+z <= 1, y+z <= 1,
\* the search ends under every branching order, and ends in Unsatisfiable.
InfeasibleExamplesEndUnsatisfiable ==
    /\ [](SolvingInfeasibleExample =>
            /\ pc \notin {"sat", "panicked"}
            /\ num_conflicts < MaxSolveConflicts)
    /\ SolvingInfeasibleExample ~> (pc = "unsat")

\* The second example was found Unsatisfiable at the root after a decision,
\* a conflict and a learned inequality.
PaperExampleWitness ==
    /\ SolvingProblem(PaperInfeasible)
    /\ pc = "unsat"
    /\ installed_constraints > 0
    /\ get_decision_level(assignments) = 0

====
